---- MODULE Spec2Model ----
(***************************************************************************)
(* Model of the tag-suggestion scoring engine:                             *)
(*   - EnsembleScorer._combine_reasoning_and_prototype (ensemble_scorer.py)*)
(*   - run_per_category_reasoning / parse_category_json                    *)
(*     (category_reasoning.py)                                             *)
(*   - PrototypeKNN build / calibrate / score (prototype_knn.py)           *)
(*   - the scoring endpoints and the prototype reload (api_server.py)      *)
(*   - PrototypeStorage save / load (prototype_storage.py)                 *)
(*   - retry_with_backoff and AirtableSync.sync_lecturer (airtable_sync.py)*)
(*                                                                         *)
(* Numbers.  Python floats are modelled as exact fixed-point integers:     *)
(*   scores, thresholds, similarities : thousandths  (0.91  -> 910)        *)
(*   ensemble weights and bonus       : hundredths   (0.5   -> 50)         *)
(*   combined ensemble score          : 1e-5 units   (0.855 -> 85500)      *)
(* A missing dict key / Python None is the string "None" for ids and the   *)
(* empty sequence for optional numbers.                                    *)
(***************************************************************************)
EXTENDS Integers, Sequences, FiniteSets, TLC

VARIABLES
    \* ---- EnsembleScorer ------------------------------------------------
    reasoning_weight,        \* self.reasoning_weight   (hundredths)
    prototype_weight,        \* self.prototype_weight   (hundredths)
    agreement_bonus,         \* self.agreement_bonus    (hundredths)
    reasoning_suggestions,   \* argument of _combine_reasoning_and_prototype
    prototype_suggestions,   \* argument of _combine_reasoning_and_prototype
    combined,                \* list returned by the latest call
    prev_combined,           \* list returned by the call before it
    combine_calls,           \* number of calls made on this input
    \* ---- run_per_category_reasoning -----------------------------------
    all_labels,              \* argument all_labels
    fut,                     \* one future per category: state, raw text, outcome
    results,                 \* the dict `results` filled by the as_completed loop
    handled,                 \* futures the as_completed loop has gone through
    llm_calls,               \* per category, number of llm_caller invocations
    run_pc,                  \* "idle", "running", "returned" or "raised"
    total_input_tokens,      \* the cell total_input_tokens of ReasoningScorer.score_lecture
    loaded_total,            \* per worker, the value of the cell it read for its +=
    category_call_details,   \* the list category_call_details
    \* ---- PrototypeKNN --------------------------------------------------
    lectures,                \* the labelled corpus the caller holds
    tag_prototypes,          \* self.tag_prototypes
    tag_stats,               \* self.tag_stats
    tag_thresholds,          \* self.tag_thresholds
    scores,                  \* dict returned by score_lecture, <<>> once another call is made
    ever_carried,            \* labels some build call saw on an embedded lecture
    last_op,                 \* latest call that changed the index: "new", "build", "calibrate"
    \* ---- _find_precision_threshold as a function ------------------------
    positives,               \* argument positives (sorted descending)
    negatives,               \* argument negatives (sorted descending)
    target_precision,        \* argument target_precision (hundredths)
    found_threshold,         \* <<>> before the call, <<returned value>> after
    \* ---- _cosine_similarity as a function ------------------------------
    arg_vec1,                \* argument vec1
    arg_vec2,                \* argument vec2
    similarity,              \* <<>> before the call, <<returned value>> after
    \* ---- api_server ----------------------------------------------------
    stored_version,          \* the database holds an active 'default' version
    prototypes_loaded,       \* global prototypes_loaded
    config,                  \* global config: <<>> for None, else <<Config>>
    api_request,             \* the latest /suggest-tags request, and whether a
                             \* load had succeeded when it was handled
    api_response,            \* the response to it: status code and suggestions
    \* ---- PrototypeStorage ----------------------------------------------
    versions,                \* table prototype_versions with the tag rows of each
                             \* version; the row id is the position
    txn,                     \* per save_prototypes call: its open transaction
    clock,                   \* the database clock
    commit_log,              \* version ids in the order their saves completed
    load_result,             \* <<>> or <<what the latest load_prototypes returned>>
    restored_scores,         \* <<>> or <<scores computed by the index restored
                             \* from load_result for one lecture embedding>>
    \* ---- EnsembleScorer.score_lecture ----------------------------------
    top_k_tags,              \* config.top_k_tags of the scorer
    ensemble_weights,        \* the weights and bonus the scorer was built with
    scorer_reasoning,        \* what reasoning_scorer.score_lecture returns
    prototype_scores,        \* what prototype_knn.score_lecture returns, in
                             \* the order of the dict
    final_suggestions,       \* the list score_lecture returned
    ensemble_done,           \* score_lecture has returned
    \* ---- api_server: a reload running next to a scoring request ---------
    db_version,              \* number of the active stored version, 0 = none
    knn_objects,             \* the PrototypeKNN objects created so far; a field
                             \* holds the version of the dict assigned to it,
                             \* 0 for the empty dict of __init__
    prototype_knn,           \* global prototype_knn: 0 = None, else an object
    tag_embeddings_cache,    \* global tag_embeddings_cache: 0 = None, else a version
    loaded_flag,             \* global prototypes_loaded as the two threads see it
    loader,                  \* the thread inside load_prototypes_from_db
    scorer,                  \* the thread inside score_lecture_fast
    \* ---- airtable_sync.retry_with_backoff -------------------------------
    retry_args,              \* max_retries, initial_delay, backoff_factor, max_delay
    attempts,                \* invocations of func made by the wrapper so far
    delay,                   \* local delay of the wrapper
    sleeps,                  \* the arguments of time.sleep, in order
    last_exception,          \* 0 = None, else the attempt whose exception it holds
    retry_outcome,           \* pc "calling" / "returned" / "raised" with the
                             \* attempt whose result or exception left the wrapper
    \* ---- AirtableSync.sync_lecturer --------------------------------------
    airtable_tags,           \* the tags field of the lecturer's record in Airtable
    approved_tag_ids,        \* argument of sync_lecturer
    sync_pc,                 \* position of the sync_lecturer call
    tags_before,             \* local of sync_lecturer
    current_tags,            \* local of update_lecturer_tags
    table_updates,           \* the table.update calls that succeeded: tags read, tags written
    sync_result,             \* <<>> or <<the SyncResult returned>>
    edits                    \* changes made to the record by other Airtable users

combineVars == <<reasoning_weight, prototype_weight, agreement_bonus,
                 reasoning_suggestions, prototype_suggestions,
                 combined, prev_combined, combine_calls>>

trackingVars == <<total_input_tokens, loaded_total, category_call_details>>

categoryVars == <<all_labels, fut, results, handled, llm_calls, run_pc, trackingVars>>

knnVars == <<lectures, tag_prototypes, tag_stats, tag_thresholds, scores,
             ever_carried, last_op>>

thresholdVars == <<positives, negatives, target_precision, found_threshold>>

cosineVars == <<arg_vec1, arg_vec2, similarity>>

apiVars == <<stored_version, prototypes_loaded, config, api_request, api_response>>

storageVars == <<versions, txn, clock, commit_log, load_result, restored_scores>>

ensembleVars == <<top_k_tags, ensemble_weights, scorer_reasoning, prototype_scores,
                  final_suggestions, ensemble_done>>

reloadVars == <<db_version, knn_objects, prototype_knn, tag_embeddings_cache,
                loaded_flag, loader, scorer>>

retryVars == <<retry_args, attempts, delay, sleeps, last_exception, retry_outcome>>

syncVars == <<airtable_tags, approved_tag_ids, sync_pc, tags_before, current_tags,
              table_updates, sync_result, edits>>

vars == <<combineVars, categoryVars, knnVars, thresholdVars, cosineVars, apiVars,
          storageVars, ensembleVars, reloadVars, retryVars, syncVars>>

\* what the actions of one component leave alone
otherThanCombine ==
    <<categoryVars, knnVars, thresholdVars, cosineVars, apiVars, storageVars,
      ensembleVars, reloadVars, retryVars, syncVars>>
otherThanCategory ==
    <<combineVars, knnVars, thresholdVars, cosineVars, apiVars, storageVars,
      ensembleVars, reloadVars, retryVars, syncVars>>
otherThanKNN ==
    <<combineVars, categoryVars, thresholdVars, cosineVars, apiVars, storageVars,
      ensembleVars, reloadVars, retryVars, syncVars>>
otherThanThreshold ==
    <<combineVars, categoryVars, knnVars, cosineVars, apiVars, storageVars,
      ensembleVars, reloadVars, retryVars, syncVars>>
otherThanCosine ==
    <<combineVars, categoryVars, knnVars, thresholdVars, apiVars, storageVars,
      ensembleVars, reloadVars, retryVars, syncVars>>
otherThanApi ==
    <<combineVars, categoryVars, knnVars, thresholdVars, cosineVars, storageVars,
      ensembleVars, reloadVars, retryVars, syncVars>>
otherThanStorage ==
    <<combineVars, categoryVars, knnVars, thresholdVars, cosineVars, apiVars,
      ensembleVars, reloadVars, retryVars, syncVars>>
otherThanEnsemble ==
    <<combineVars, categoryVars, knnVars, thresholdVars, cosineVars, apiVars,
      storageVars, reloadVars, retryVars, syncVars>>
otherThanReload ==
    <<combineVars, categoryVars, knnVars, thresholdVars, cosineVars, apiVars,
      storageVars, ensembleVars, retryVars, syncVars>>
otherThanRetry ==
    <<combineVars, categoryVars, knnVars, thresholdVars, cosineVars, apiVars,
      storageVars, ensembleVars, reloadVars, syncVars>>
otherThanSync ==
    <<combineVars, categoryVars, knnVars, thresholdVars, cosineVars, apiVars,
      storageVars, ensembleVars, reloadVars, retryVars>>

None == "None"

(***************************************************************************)
(* Generic helpers                                                         *)
(***************************************************************************)
Min(a, b) == IF a <= b THEN a ELSE b
Max(a, b) == IF a >= b THEN a ELSE b

\* dict assignment  m[k] = v
MapPut(m, k, v) == [x \in (DOMAIN m) \cup {k} |-> IF x = k THEN v ELSE m[x]]

\* all sequences over S of length 0..n
SeqsUpTo(S, n) == UNION {[1..k -> S] : k \in 0..n}

\* every order in which a set can be iterated
Orders(S) == {s \in [1..Cardinality(S) -> S] :
                 \A i, j \in 1..Cardinality(S) : i # j => s[i] # s[j]}

(***************************************************************************)
(* EnsembleScorer                                                          *)
(***************************************************************************)
PROTOTYPE_THRESHOLD_MARGIN == 30

MaxProto == 2      \* longest prototype_suggestions list explored
MaxReason == 2     \* longest reasoning_suggestions list explored
MaxCalls == 2      \* calls of Combine made on one input

Item(tag, label, score, thr) ==
    [tag_id |-> tag, label_id |-> label, score |-> score, threshold |-> thr]

\* prototype suggestions offered to Combine (score / threshold in thousandths)
ProtoItems ==
    { Item("A", None, 910, <<700>>),
      Item("B", None, 400, <<700>>),
      Item("A", None, 670, <<700>>),
      Item("B", None, 669, <<700>>),
      Item("B", None, 910, <<700>>),
      Item("B", None, 700, <<700>>),
      Item(None, "B", 820, <<750>>),
      Item("A", "B", 910, <<700>>),
      Item(None, None, 910, <<700>>),
      Item("A", None, 910, <<>>) }

\* reasoning suggestions offered to Combine
ReasonItems ==
    { Item("A", None, 600, <<>>),
      Item("B", None, 600, <<>>),
      Item("B", None, 900, <<>>),
      Item(None, "A", 900, <<>>),
      Item(None, None, 600, <<>>) }

\* (reasoning_weight, prototype_weight, agreement_bonus) configurations
WeightConfigs ==
    { [rw |-> 50, pw |-> 50, bonus |-> 10],
      [rw |-> 60, pw |-> 40, bonus |-> 15] }

\* it.get("label_id") or it.get("tag_id")
IndexKey(it) == IF it.label_id # None THEN it.label_id ELSE it.tag_id

\* p.get("threshold", 1.0)
ThresholdOf(p) == IF p.threshold = <<>> THEN 1000 ELSE p.threshold[1]

RECURSIVE IndexFrom(_, _, _)
IndexFrom(items, i, out) ==
    IF i > Len(items) THEN out
    ELSE LET it == items[i]
             lid == IndexKey(it)
         IN  IF lid = None
             THEN IndexFrom(items, i + 1, out)
             ELSE IndexFrom(items, i + 1,
                      MapPut(out, lid,
                             [it EXCEPT !.label_id = lid, !.tag_id = lid]))

\* _index_by_label: later items overwrite earlier ones with the same id
index_by_label(items) == IndexFrom(items, 1, <<>>)

\* eligible = [p for p in prototype_suggestions if score >= threshold]
IsEligible(p) == p.score >= ThresholdOf(p)
Eligible(protos) == SelectSeq(protos, IsEligible)

\* max(eligible, key=score): the first item carrying the largest score
BestOf(el) ==
    el[CHOOSE i \in 1..Len(el) :
          /\ \A j \in 1..Len(el) : el[j].score <= el[i].score
          /\ \A j \in 1..(i - 1) : el[j].score < el[i].score]

\* best.get("tag_id") or best.get("label_id")
BestId(best) == IF best.tag_id # None THEN best.tag_id ELSE best.label_id

BackfillTriggered(reasoning, protos) ==
    reasoning = <<>> /\ Eligible(protos) # <<>>

\* rmap after the backfill block
RMap(reasoning, protos) ==
    IF BackfillTriggered(reasoning, protos)
    THEN LET best == BestOf(Eligible(protos))
             bid  == BestId(best)
         IN  MapPut(index_by_label(reasoning), bid, Item(bid, bid, 0, <<>>))
    ELSE index_by_label(reasoning)

\* variant of PMap that forgets to restrict pmap to the backfilled label
PMap_KeepAll(reasoning, protos) == index_by_label(protos)

\* pmap after the backfill block
PMap(reasoning, protos) ==
    IF BackfillTriggered(reasoning, protos)
    THEN LET best == BestOf(Eligible(protos))
             bid  == BestId(best)
         IN  MapPut(<<>>, bid, Item(bid, bid, best.score, <<ThresholdOf(best)>>))
    ELSE index_by_label(protos)

\* labels = set(rmap.keys()) | set(pmap.keys())
LabelSet(reasoning, protos) ==
    (DOMAIN RMap(reasoning, protos)) \cup (DOMAIN PMap(reasoning, protos))

\* variant of the loop order that walks the keys of rmap and then the keys
\* of pmap instead of their union
LabelOrders_KeyLists(reasoning, protos) ==
    { r \o q : r \in Orders(DOMAIN RMap(reasoning, protos)),
               q \in Orders(DOMAIN PMap(reasoning, protos)) }

\* the orders in which `for lid in labels` can visit the set
LabelOrders(reasoning, protos) == Orders(LabelSet(reasoning, protos))

\* variant of the bonus guard without the threshold-margin test
BonusApplies_NoMargin(inR, inP, prototype_score, proto_threshold) == inR /\ inP

\* variant of the bonus guard that never grants the bonus
BonusApplies_Never(inR, inP, prototype_score, proto_threshold) == FALSE

\* the guard of the agreement bonus
BonusApplies(inR, inP, prototype_score, proto_threshold) ==
    inR /\ inP /\ prototype_score >= proto_threshold - PROTOTYPE_THRESHOLD_MARGIN

\* variant of the prototype-only filter that compares with <= instead of <
PrototypeOnlyDropped_Le(inR, inP, prototype_score, proto_threshold) ==
    ~inR /\ inP /\ prototype_score <= proto_threshold

\* the prototype-only filter: TRUE when the label is skipped
PrototypeOnlyDropped(inR, inP, prototype_score, proto_threshold) ==
    ~inR /\ inP /\ prototype_score < proto_threshold

\* min(1.0, max(0.0, base)) in 1e-5 units
Clamp(base) == Min(100000, Max(0, base))

\* one pass of the loop body for label lid: <<>> when skipped, else <<entry>>
CombineOne(rmap, pmap, lid, rw, pw, bonus) ==
    LET inR == lid \in DOMAIN rmap
        inP == lid \in DOMAIN pmap
        reasoning_score == IF inR THEN rmap[lid].score ELSE 0
        prototype_score == IF inP THEN pmap[lid].score ELSE 0
        proto_threshold == IF inP THEN ThresholdOf(pmap[lid]) ELSE 1000
        applied == BonusApplies(inR, inP, prototype_score, proto_threshold)
        base == rw * reasoning_score + pw * prototype_score
                  + (IF applied THEN bonus * 1000 ELSE 0)
    IN  IF PrototypeOnlyDropped(inR, inP, prototype_score, proto_threshold)
        THEN <<>>
        ELSE << [tag_id |-> lid,
                 score |-> Clamp(base),
                 reasoning_score |-> reasoning_score,
                 prototype_score |-> prototype_score,
                 prototype_threshold |-> proto_threshold,
                 agreement_bonus_applied |-> applied,
                 model |-> IF inR /\ inP THEN "ensemble:reasoning+prototype"
                           ELSE IF inR THEN "ensemble:reasoning_only"
                           ELSE "ensemble:prototype_only"] >>

RECURSIVE CombineLoop(_, _, _, _, _, _, _)
CombineLoop(rmap, pmap, order, i, rw, pw, bonus) ==
    IF i > Len(order) THEN <<>>
    ELSE CombineOne(rmap, pmap, order[i], rw, pw, bonus)
            \o CombineLoop(rmap, pmap, order, i + 1, rw, pw, bonus)

\* list.sort(key=score, reverse=True): stable, equal scores keep their order
RECURSIVE InsertDesc(_, _)
InsertDesc(sorted, x) ==
    IF sorted = <<>> THEN <<x>>
    ELSE IF Head(sorted).score >= x.score
         THEN <<Head(sorted)>> \o InsertDesc(Tail(sorted), x)
         ELSE <<x>> \o sorted

RECURSIVE SortFrom(_, _, _)
SortFrom(seq, i, acc) ==
    IF i > Len(seq) THEN acc ELSE SortFrom(seq, i + 1, InsertDesc(acc, seq[i]))

SortDesc(seq) == SortFrom(seq, 1, <<>>)

\* _combine_reasoning_and_prototype; `order` is the order in which Python
\* iterates the set `labels` (it depends on the string hash seed)
combine_reasoning_and_prototype(reasoning, protos, order, rw, pw, bonus) ==
    SortDesc(CombineLoop(RMap(reasoning, protos), PMap(reasoning, protos),
                         order, 1, rw, pw, bonus))

\* the scorer before any input has been handed to it
IdleCombine ==
    /\ reasoning_weight = 50 /\ prototype_weight = 50 /\ agreement_bonus = 10
    /\ reasoning_suggestions = <<>>
    /\ prototype_suggestions = <<>>
    /\ combined = <<>>
    /\ prev_combined = <<>>
    /\ combine_calls = 0

InitCombineVars ==
    /\ \E w \in WeightConfigs :
          /\ reasoning_weight = w.rw
          /\ prototype_weight = w.pw
          /\ agreement_bonus = w.bonus
    /\ reasoning_suggestions \in SeqsUpTo(ReasonItems, MaxReason)
    /\ prototype_suggestions \in SeqsUpTo(ProtoItems, MaxProto)
    /\ combined = <<>>
    /\ prev_combined = <<>>
    /\ combine_calls = 0

\* one call Combine(reasoning_suggestions, prototype_suggestions, lecture_id)
CallCombine ==
    /\ combine_calls < MaxCalls
    /\ \E order \in LabelOrders(reasoning_suggestions, prototype_suggestions) :
          combined' = combine_reasoning_and_prototype(
                          reasoning_suggestions, prototype_suggestions, order,
                          reasoning_weight, prototype_weight, agreement_bonus)
    /\ prev_combined' = combined
    /\ combine_calls' = combine_calls + 1
    /\ UNCHANGED <<reasoning_weight, prototype_weight, agreement_bonus,
                   reasoning_suggestions, prototype_suggestions>>
    /\ UNCHANGED otherThanCombine

(***************************************************************************)
(* category_reasoning.py                                                   *)
(***************************************************************************)
CATEGORIES == <<"Topic", "Persona", "Audience", "Tone", "Format">>
CategorySet == {CATEGORIES[i] : i \in 1..Len(CATEGORIES)}

Label(tid, cat) == [tag_id |-> tid, category |-> cat]

\* label lists handed to the orchestrator; a category of None is a label
\* without category, "Other" is a category outside CATEGORIES
LabelLists ==
    { <<>>,
      <<Label("t1", "Topic"), Label("t2", "Topic"), Label("t3", "Persona"),
        Label("t4", None), Label("t5", "Other")>>,
      <<Label("t1", "Topic"), Label("t3", "Persona"), Label("t4", "Audience")>> }

\* the bucket of one category, in input order (labels whose category is
\* missing or unknown are put in no bucket)
IsInCategory(lb, cat) == lb.category # None /\ lb.category = cat

Bucket(labels, cat) == SelectSeq(labels, LAMBDA lb : IsInCategory(lb, cat))

\* group_labels_by_category
group_labels_by_category(labels) == [c \in CategorySet |-> Bucket(labels, c)]

\* CategoryResult
CategoryResult(cat, chosen, conf, rats) ==
    [category |-> cat, chosen_ids |-> chosen, confidence |-> conf, rationales |-> rats]

EmptyResult(cat) == CategoryResult(cat, <<>>, <<>>, <<>>)

(* A response text is a sequence of tokens.  A token is                    *)
(*   Txt      : text without braces that is not JSON                        *)
(*   JsonList : a JSON value that is not an object, such as [1, 2]          *)
(*   Broken   : a {...} block that is not well-formed JSON                  *)
(*   JsonObject(..) : a well-formed JSON object {chosen_ids, confidence,    *)
(*              rationales}; a confidence value is <<v>> for a number and   *)
(*              <<>> for a value float() rejects                            *)
Token(kind, chosen, conf, rats) ==
    [kind |-> kind, chosen_ids |-> chosen, confidence |-> conf, rationales |-> rats]

Txt == Token("txt", <<>>, <<>>, <<>>)
JsonList == Token("list", <<>>, <<>>, <<>>)
Broken == Token("broken", <<>>, <<>>, <<>>)
JsonObject(chosen, conf, rats) == Token("object", chosen, conf, rats)

IsObject(tok) == tok.kind = "object"
HasBraces(tok) == tok.kind \in {"object", "broken"}
IsJsonValue(tok) == tok.kind \in {"object", "list"}

ObjA == JsonObject(<<"t1", "zz", "t1", "t3">>,
                   [k \in {"t1", "zz"} |-> <<850>>],
                   [k \in {"t1", "t3"} |-> "why"])
ObjB == JsonObject(<<"t4", "t2", "t1">>,
                   [k \in {"t2", "t4"} |-> <<700>>],
                   [k \in {"t2", "zz"} |-> "why"])
ObjExtraKeys == JsonObject(<<"t2", "zz", "t2", "t1">>,
                           [k \in {"t2", "t3"} |-> IF k = "t2" THEN <<900>> ELSE <<400>>],
                           [k \in {"t3"} |-> "no"])
ObjBadConf == JsonObject(<<"t1", "t3">>,
                         [k \in {"t1", "t3", "t4"} |-> <<>>],
                         <<>>)

\* matches = list(JSON_BLOCK.finditer(text)) with JSON_BLOCK = r"\{.*\}" under
\* DOTALL: the greedy pattern yields at most one match, running from the first
\* token holding "{" to the last token holding "}"
BracePositions(text) == {i \in 1..Len(text) : HasBraces(text[i])}

RegexSpan(text) ==
    LET ps == BracePositions(text)
        lo == CHOOSE i \in ps : \A j \in ps : i <= j
        hi == CHOOSE i \in ps : \A j \in ps : j <= i
    IN  SubSeq(text, lo, hi)

\* json.loads(t): <<value>> when t is exactly one JSON value, <<>> when it raises
JsonLoads(t) == IF Len(t) = 1 /\ IsJsonValue(t[1]) THEN <<t[1]>> ELSE <<>>

\* the two-stage load of parse_category_json: <<data>> or <<>> (empty result)
LoadData(text) ==
    IF JsonLoads(text) # <<>> THEN JsonLoads(text)
    ELSE IF BracePositions(text) = {} THEN <<>>
    ELSE JsonLoads(RegexSpan(text))

\* variant of the filter that does not track the ids already seen
FilterChosen_KeepRepeats(ids, i, allowed, seen) ==
    SelectSeq(SubSeq(ids, i, Len(ids)), LAMBDA tid : tid \in allowed)

\* [tid for tid in chosen_ids if tid in allowed and tid not in seen ...]
RECURSIVE FilterChosen(_, _, _, _)
FilterChosen(ids, i, allowed, seen) ==
    IF i > Len(ids) THEN <<>>
    ELSE IF ids[i] \in allowed /\ ids[i] \notin seen
         THEN <<ids[i]>> \o FilterChosen(ids, i + 1, allowed, seen \cup {ids[i]})
         ELSE FilterChosen(ids, i + 1, allowed, seen)

\* {k: v for k, v in m.items() if k in allowed_ids}
RestrictKeys(m, allowed) == [k \in (DOMAIN m) \cap allowed |-> m[k]]

\* parse_category_json: [raised |-> TRUE] when an exception escapes it,
\* else [raised |-> FALSE, result |-> CategoryResult]
parse_category_json(raw_text, allowed_ids, category) ==
    LET loaded == LoadData(raw_text)
    IN  IF loaded = <<>>
        THEN [raised |-> FALSE, result |-> EmptyResult(category)]
        ELSE IF ~IsObject(loaded[1])
        THEN [raised |-> TRUE, result |-> EmptyResult(category)]  \* data.get on a non-dict
        ELSE LET data == loaded[1]
                 conf == RestrictKeys(data.confidence, allowed_ids)
             IN  IF \E k \in DOMAIN conf : conf[k] = <<>>
                 THEN [raised |-> TRUE, result |-> EmptyResult(category)]  \* float(v) raises
                 ELSE [raised |-> FALSE,
                       result |-> CategoryResult(
                           category,
                           FilterChosen(data.chosen_ids, 1, allowed_ids, {}),
                           [k \in DOMAIN conf |-> conf[k][1]],
                           RestrictKeys(data.rationales, allowed_ids))]

\* what llm_caller may do: raise, or return one of these texts
Responses ==
    { <<ObjA>>, <<Txt, ObjB>>, <<ObjA, Txt, ObjB>>, <<JsonList>>, <<ObjBadConf>>,
      <<ObjExtraKeys>> }

\* allowed = {t["tag_id"] for t in tags}
AllowedIds(tags) == {tags[i].tag_id : i \in 1..Len(tags)}

Future(st, raw, res) == [st |-> st, raw |-> raw, result |-> res]

\* total_input_tokens = 0; category_call_details = []
\* total_input_tokens += input_tokens: the sum of the value read earlier
\* (`loaded`) and the worker's own count is stored, whatever the cell
\* (`current`) holds by then
AddTokens(loaded, current, input_tokens) == loaded + input_tokens

NoUsageTracked ==
    /\ total_input_tokens = 0
    /\ loaded_total = [c \in CategorySet |-> <<>>]
    /\ category_call_details = <<>>

\* usage.prompt_tokens of the call made for a bucket of labels
InputTokens(tags) == 50 * Len(tags)

\* state of run_per_category_reasoning before it is called
IdleCategory ==
    /\ all_labels = <<>>
    /\ fut = [c \in CategorySet |-> Future("none", <<>>, EmptyResult(c))]
    /\ results = <<>>
    /\ handled = {}
    /\ llm_calls = [c \in CategorySet |-> 0]
    /\ run_pc = "idle"
    /\ NoUsageTracked

\* the call has grouped the labels and submitted one task per category
InitCategoryVars ==
    /\ all_labels \in LabelLists
    /\ fut = [c \in CategorySet |-> Future("submitted", <<>>, EmptyResult(c))]
    /\ results = <<>>
    /\ handled = {}
    /\ llm_calls = [c \in CategorySet |-> 0]
    /\ run_pc = "running"
    /\ NoUsageTracked

\* variant of the bucket test that sends every category to the LLM
IsSkipped_Never(tags) == FALSE

\* `if not tags`: the category is skipped without a call
IsSkipped(tags) == tags = <<>>

\* process_category up to the LLM call: an empty bucket returns at once
StartCategory(c) ==
    /\ run_pc = "running"
    /\ fut[c].st = "submitted"
    /\ LET tags == group_labels_by_category(all_labels)[c]
       IN  IF IsSkipped(tags)
           THEN /\ fut' = [fut EXCEPT ![c] = Future("done", <<>>, EmptyResult(c))]
                /\ UNCHANGED llm_calls
           ELSE /\ fut' = [fut EXCEPT ![c] = Future("calling", <<>>, EmptyResult(c))]
                /\ llm_calls' = [llm_calls EXCEPT ![c] = @ + 1]
    /\ UNCHANGED <<all_labels, results, handled, run_pc, trackingVars>>
    /\ UNCHANGED otherThanCategory

\* llm_caller_with_tracking: the model answers with text `raw` and a usage
\* figure, and the worker starts `total_input_tokens += input_tokens` by
\* reading the cell
LlmResponds(c, raw) ==
    /\ run_pc = "running"
    /\ fut[c].st = "calling"
    /\ fut' = [fut EXCEPT ![c] = Future("adding", raw, EmptyResult(c))]
    /\ loaded_total' = [loaded_total EXCEPT ![c] = <<total_input_tokens>>]
    /\ UNCHANGED <<all_labels, results, handled, llm_calls, run_pc,
                   total_input_tokens, category_call_details>>
    /\ UNCHANGED otherThanCategory

\* the worker stores the sum into the cell, appends its call details and
\* returns the text; process_category parses it and returns or raises
LlmReturns(c) ==
    /\ run_pc = "running"
    /\ fut[c].st = "adding"
    /\ LET tags == group_labels_by_category(all_labels)[c]
           raw == fut[c].raw
           parsed == parse_category_json(raw, AllowedIds(tags), c)
       IN  /\ total_input_tokens' = AddTokens(loaded_total[c][1], total_input_tokens,
                                              InputTokens(tags))
           /\ category_call_details' =
                 Append(category_call_details,
                        [category |-> c, input_tokens |-> InputTokens(tags)])
           /\ fut' = [fut EXCEPT ![c] =
                         IF parsed.raised
                         THEN Future("raised", raw, EmptyResult(c))
                         ELSE Future("done", raw, parsed.result)]
    /\ loaded_total' = [loaded_total EXCEPT ![c] = <<>>]
    /\ UNCHANGED <<all_labels, results, handled, llm_calls, run_pc>>
    /\ UNCHANGED otherThanCategory

\* llm_caller raises; the exception leaves process_category
LlmRaises(c) ==
    /\ run_pc = "running"
    /\ fut[c].st = "calling"
    /\ fut' = [fut EXCEPT ![c] = Future("raised", <<>>, EmptyResult(c))]
    /\ UNCHANGED <<all_labels, results, handled, llm_calls, run_pc, trackingVars>>
    /\ UNCHANGED otherThanCategory

\* variant of the loop body in which a failed future wipes the other results
StoreResult_WipeOnError(res, c, f) ==
    IF f.st = "raised"
    THEN [x \in (DOMAIN res) \cup {c} |-> EmptyResult(x)]
    ELSE MapPut(res, f.result.category, f.result)

\* the body of the as_completed loop for the future of category c
StoreResult(res, c, f) ==
    IF f.st = "raised"
    THEN MapPut(res, c, EmptyResult(c))
    ELSE MapPut(res, f.result.category, f.result)

\* the as_completed loop yields a finished future, in completion order
HandleFuture(c) ==
    /\ run_pc = "running"
    /\ fut[c].st \in {"done", "raised"}
    /\ c \notin handled
    /\ results' = StoreResult(results, c, fut[c])
    /\ handled' = handled \cup {c}
    /\ UNCHANGED <<all_labels, fut, llm_calls, run_pc, trackingVars>>
    /\ UNCHANGED otherThanCategory

\* variant of the join that stops waiting after the first finished future
AllCompleted_First(done) == done # {}

\* as_completed(futures) is exhausted and the executor has joined its workers
AllCompleted(done) == done = CategorySet

\* every future has been handled, the executor is shut down, results returned
ReturnResults ==
    /\ run_pc = "running"
    /\ AllCompleted(handled)
    /\ run_pc' = "returned"
    /\ UNCHANGED <<all_labels, fut, results, handled, llm_calls, trackingVars>>
    /\ UNCHANGED otherThanCategory

NextCategory ==
    \/ \E c \in CategorySet : StartCategory(c)
    \/ \E c \in CategorySet : \E raw \in Responses : LlmResponds(c, raw)
    \/ \E c \in CategorySet : LlmReturns(c)
    \/ \E c \in CategorySet : LlmRaises(c)
    \/ \E c \in CategorySet : HandleFuture(c)
    \/ ReturnResults

(***************************************************************************)
(* prototype_knn.py                                                        *)
(* Vectors are pairs of thousandths; a lecture is [tags, emb] where emb is *)
(* <<v>> when lecture_embeddings holds the lecture's id and <<>> when not. *)
(***************************************************************************)
low_data_tag_threshold == 5
config_prototype_weight == 80
label_weight == 20
config_target_precision == 90
min_confidence_threshold == 600
train_holdout_split == 80

MaxLectures == 6    \* longest corpus explored
MaxScores == 3      \* longest positives / negatives list handed to the search

E1 == <<1000, 0>>
E2 == <<0, 1000>>
D == <<600, 800>>
Vectors == {E1, E2, D}

Lecture(tags, emb) == [tags |-> tags, emb |-> emb]

\* lectures a corpus is made of; T9 is a tag id unknown to tags_data
LectureTypes ==
    { Lecture(<<"T1", "T9">>, <<D>>),
      Lecture(<<"T2">>, <<E2>>),
      Lecture(<<"T2">>, <<E1>>) }

\* corpora a caller may turn to for a later build / calibrate call: one
\* untagged lecture, one tagged lecture without embedding, one new example
RetrainCorpora ==
    { <<Lecture(<<>>, <<E2>>)>>,
      <<Lecture(<<"T3", "T1">>, <<>>)>>,
      <<Lecture(<<"T2">>, <<E2>>)>> }

\* tags_data.keys()
tags_data == {"T1", "T2", "T3"}

\* tag_embeddings: embeddings of the labels' display texts (T2 has none)
tag_embeddings == [t \in {"T1", "T3"} |-> IF t = "T1" THEN E1 ELSE E2]

SeqToSet(q) == {q[i] : i \in 1..Len(q)}

\* floor of the square root, by bisection
RECURSIVE SqrtBetween(_, _, _)
SqrtBetween(n, lo, hi) ==
    IF lo >= hi THEN lo
    ELSE LET mid == (lo + hi + 1) \div 2
         IN  IF mid * mid <= n THEN SqrtBetween(n, mid, hi)
             ELSE SqrtBetween(n, lo, mid - 1)

(* Floating point.  numpy computes in binary64; the model keeps the same    *)
(* operations (every product, sum, quotient and square root is rounded to  *)
(* the nearest representable number, ties to even) in a decimal format of  *)
(* three significant digits laid on the grid of thousandths, which is also *)
(* its smallest positive step.  The guard 1e-10 of _cosine_similarity is   *)
(* one step of the grid: added to a zero norm it is the whole divisor,     *)
(* added to a norm of 1.0 or more it is rounded away, as 1e-10 is in       *)
(* binary64 once the norm passes about 1e6.                                *)
Abs(x) == IF x < 0 THEN -x ELSE x

Sign(x) == IF x < 0 THEN -1 ELSE 1

\* spacing of the representable numbers around magnitude m
RECURSIVE Ulp(_)
Ulp(m) == IF m < 1000 THEN 1 ELSE 10 * Ulp(m \div 10)

\* the representable number nearest to num / den (den > 0), in grid units
RoundRatio(num, den) ==
    LET n == Abs(num)
        u == Ulp(n \div den)
        lo == ((n \div den) \div u) * u
        rem == n - lo * den
        up == \/ 2 * rem > u * den
              \/ 2 * rem = u * den /\ (lo \div u) % 2 = 1
    IN  Sign(num) * (IF up THEN lo + u ELSE lo)

FAdd(x, y) == RoundRatio(x + y, 1)
FMul(x, y) == RoundRatio(x * y, 1000)
FDiv(x, y) == RoundRatio(x * 1000, y)

\* np.sqrt: the representable number nearest to the square root
FSqrt(x) ==
    LET t == x * 1000
        r == SqrtBetween(t, 0, 40000)
        u == Ulp(r)
        lo == (r \div u) * u
        d == 4 * (t - lo * lo - lo * u)
        up == d > u * u \/ (d = u * u /\ (lo \div u) % 2 = 1)
    IN  IF up THEN lo + u ELSE lo

\* np.dot of two vectors
Dot(a, b) == FAdd(FMul(a[1], b[1]), FMul(a[2], b[2]))

\* np.linalg.norm
Norm(v) == FSqrt(Dot(v, v))

\* the 1e-10 added to the norm
NormEpsilon == 1

\* vec / (np.linalg.norm(vec) + 1e-10)
Normalized(v) ==
    LET n == FAdd(Norm(v), NormEpsilon)
    IN  <<FDiv(v[1], n), FDiv(v[2], n)>>

\* _cosine_similarity
cosine_similarity(vec1, vec2) == Dot(Normalized(vec1), Normalized(vec2))

\* _extract_tagged_lectures
extract_tagged_lectures(lecs) == SelectSeq(lecs, LAMBDA l : l.tags # <<>>)

\* tag_vectors[tag_id]: embeddings of the tagged, embedded lectures carrying tag_id
TagVectors(lecs, tag_id) ==
    LET tagged == extract_tagged_lectures(lecs)
        carries(l) == l.emb # <<>> /\ tag_id \in SeqToSet(l.tags)
                        /\ tag_id \in tags_data
        picked == SelectSeq(tagged, carries)
    IN  [i \in 1..Len(picked) |-> picked[i].emb[1]]

RECURSIVE SumVec(_, _)
SumVec(vs, i) ==
    IF i > Len(vs) THEN <<0, 0>>
    ELSE LET rest == SumVec(vs, i + 1)
         IN  <<vs[i][1] + rest[1], vs[i][2] + rest[2]>>

\* np.mean(vectors, axis=0)
MeanVec(vs) == LET sum == SumVec(vs, 1) IN <<sum[1] \div Len(vs), sum[2] \div Len(vs)>>

AllTagsOf(lecs) == UNION {SeqToSet(lecs[i].tags) : i \in 1..Len(lecs)}

\* the keys of tag_vectors after the accumulation loop
BuiltTags(lecs) == {t \in AllTagsOf(lecs) : TagVectors(lecs, t) # <<>>}

\* build_prototypes: entries of tags absent from this corpus are left as they are
BuildPrototypes ==
    /\ LET built == BuiltTags(lectures)
           tv == [t \in built |-> TagVectors(lectures, t)]
       IN  /\ tag_prototypes' =
                 [t \in (DOMAIN tag_prototypes) \cup built |->
                     IF t \in built THEN MeanVec(tv[t]) ELSE tag_prototypes[t]]
           /\ tag_stats' =
                 [t \in (DOMAIN tag_stats) \cup built |->
                     IF t \in built
                     THEN [num_examples |-> Len(tv[t]),
                           is_low_data |-> Len(tv[t]) < low_data_tag_threshold]
                     ELSE tag_stats[t]]
           /\ ever_carried' = ever_carried \cup
                 {t \in AllTagsOf(lectures) :
                     \E i \in 1..Len(lectures) :
                         lectures[i].emb # <<>> /\ t \in SeqToSet(lectures[i].tags)}
    /\ last_op' = "build"
    /\ scores' = <<>>
    /\ UNCHANGED <<lectures, tag_thresholds>>
    /\ UNCHANGED otherThanKNN

\* stats.get('is_low_data', False)
IsLowData(stats) == "is_low_data" \in DOMAIN stats /\ stats.is_low_data

\* _compute_score
compute_score(protos, stats, lecture_embedding, tag_id) ==
    IF tag_id \notin DOMAIN protos THEN 0
    ELSE LET proto_sim == cosine_similarity(lecture_embedding, protos[tag_id])
             low == tag_id \in DOMAIN stats /\ IsLowData(stats[tag_id])
         IN  IF low /\ tag_id \in DOMAIN tag_embeddings
             THEN (config_prototype_weight * proto_sim
                     + label_weight
                         * cosine_similarity(lecture_embedding, tag_embeddings[tag_id]))
                  \div 100
             ELSE proto_sim

\* sorted(xs, reverse=True) for a sequence of numbers
RECURSIVE InsertNumDesc(_, _)
InsertNumDesc(sorted, x) ==
    IF sorted = <<>> THEN <<x>>
    ELSE IF Head(sorted) >= x THEN <<Head(sorted)>> \o InsertNumDesc(Tail(sorted), x)
         ELSE <<x>> \o sorted

RECURSIVE SortNumFrom(_, _, _)
SortNumFrom(xs, i, acc) ==
    IF i > Len(xs) THEN acc ELSE SortNumFrom(xs, i + 1, InsertNumDesc(acc, xs[i]))

SortedDesc(xs) == SortNumFrom(xs, 1, <<>>)

\* sum(1 for s in xs if s >= threshold)
CountAtLeast(xs, threshold) == Cardinality({i \in 1..Len(xs) : xs[i] >= threshold})

\* precision >= target_precision at a cutoff (tp + fp > 0 for every candidate)
MeetsTarget(pos, neg, threshold, target) ==
    LET tp == CountAtLeast(pos, threshold)
        fp == CountAtLeast(neg, threshold)
    IN  tp + fp # 0 /\ tp * 100 >= target * (tp + fp)

SetMax(S) == CHOOSE x \in S : \A y \in S : y <= x
SetMin(S) == CHOOSE x \in S : \A y \in S : x <= y

\* variant of the fallback that returns the lowest candidate
Fallback_Lowest(cands) == IF cands = {} THEN 500 ELSE SetMin(cands)

\* return max(candidates) if candidates else 0.5
Fallback(cands) == IF cands = {} THEN 500 ELSE SetMax(cands)

\* the scan over candidates from the highest to the lowest
RECURSIVE ScanCandidates(_, _, _, _, _)
ScanCandidates(todo, cands, pos, neg, target) ==
    IF todo = {} THEN Fallback(cands)
    ELSE LET threshold == SetMax(todo)
         IN  IF MeetsTarget(pos, neg, threshold, target) THEN threshold
             ELSE ScanCandidates(todo \ {threshold}, cands, pos, neg, target)

\* variant of the search that scans the candidates from the lowest up
RECURSIVE ScanAscending(_, _, _, _, _)
ScanAscending(todo, cands, pos, neg, target) ==
    IF todo = {} THEN Fallback(cands)
    ELSE LET threshold == SetMin(todo)
         IN  IF MeetsTarget(pos, neg, threshold, target) THEN threshold
             ELSE ScanAscending(todo \ {threshold}, cands, pos, neg, target)

find_precision_threshold_Ascending(pos, neg, target) ==
    ScanAscending(SeqToSet(pos) \cup SeqToSet(neg),
                  SeqToSet(pos) \cup SeqToSet(neg), pos, neg, target)

\* _find_precision_threshold
find_precision_threshold(pos, neg, target) ==
    ScanCandidates(SeqToSet(pos) \cup SeqToSet(neg),
                   SeqToSet(pos) \cup SeqToSet(neg), pos, neg, target)

\* holdout_lectures = tagged_lectures[int(len(tagged_lectures) * split):]
Holdout(lecs) ==
    LET tagged == extract_tagged_lectures(lecs)
        split_idx == (Len(tagged) * train_holdout_split) \div 100
    IN  SubSeq(tagged, split_idx + 1, Len(tagged))

\* tag_scores_positive[tag_id] / tag_scores_negative[tag_id], sorted descending;
\* `held` is the holdout list
HoldoutScores(protos, stats, held, tag_id, positive) ==
    LET side == SelectSeq(held,
                    LAMBDA l : l.emb # <<>>
                               /\ (tag_id \in SeqToSet(l.tags)) = positive)
    IN  SortedDesc([i \in 1..Len(side) |->
                       compute_score(protos, stats, side[i].emb[1], tag_id)])

\* variant of the final threshold that forgets the configured floor
FinalThreshold_NoFloor(threshold) == threshold

\* threshold = max(threshold, self.config.min_confidence_threshold)
FinalThreshold(threshold) == Max(threshold, min_confidence_threshold)

\* the threshold calibrate_thresholds stores for one tag with a prototype
CalibratedThreshold(protos, stats, lecs, tag_id) ==
    IF extract_tagged_lectures(lecs) = <<>> THEN min_confidence_threshold
    ELSE LET held == Holdout(lecs)
             pos == HoldoutScores(protos, stats, held, tag_id, TRUE)
             neg == HoldoutScores(protos, stats, held, tag_id, FALSE)
         IN  IF pos = <<>> THEN min_confidence_threshold
             ELSE FinalThreshold(
                      find_precision_threshold(pos, neg, config_target_precision))

\* calibrate_thresholds
CalibrateThresholds ==
    /\ tag_thresholds' =
          [t \in (DOMAIN tag_thresholds) \cup (DOMAIN tag_prototypes) |->
              IF t \in DOMAIN tag_prototypes
              THEN CalibratedThreshold(tag_prototypes, tag_stats, lectures, t)
              ELSE tag_thresholds[t]]
    /\ last_op' = "calibrate"
    /\ scores' = <<>>
    /\ UNCHANGED <<lectures, tag_prototypes, tag_stats, ever_carried>>
    /\ UNCHANGED otherThanKNN

\* self.tag_thresholds.get(tag_id, self.config.min_confidence_threshold)
ThresholdFor(thresholds, tag_id) ==
    IF tag_id \in DOMAIN thresholds THEN thresholds[tag_id]
    ELSE min_confidence_threshold

\* variant of score_lecture that walks the label-text embeddings as well and
\* scores a label without prototype by its label-text similarity
score_lecture_LabelTextFallback(protos, stats, thresholds, lecture_embedding) ==
    LET keys == (DOMAIN protos) \cup (DOMAIN tag_embeddings)
        sc == [t \in keys |->
                 IF t \in DOMAIN protos
                 THEN compute_score(protos, stats, lecture_embedding, t)
                 ELSE cosine_similarity(lecture_embedding, tag_embeddings[t])]
    IN  [t \in {u \in keys : sc[u] >= ThresholdFor(thresholds, u)} |-> sc[t]]

\* score_lecture: the dict it returns
score_lecture(protos, stats, thresholds, lecture_embedding) ==
    LET sc == [t \in DOMAIN protos |->
                 compute_score(protos, stats, lecture_embedding, t)]
    IN  [t \in {u \in DOMAIN protos : sc[u] >= ThresholdFor(thresholds, u)} |-> sc[t]]

\* a call of score_lecture; last_op keeps naming the latest call that changed
\* the index
ScoreLecture(lecture_embedding) ==
    /\ scores' = score_lecture(tag_prototypes, tag_stats, tag_thresholds,
                               lecture_embedding)
    /\ UNCHANGED <<lectures, tag_prototypes, tag_stats, tag_thresholds,
                   ever_carried, last_op>>
    /\ UNCHANGED otherThanKNN

\* the caller turns to another corpus for its next build / calibrate call
SwitchCorpus(lecs) ==
    /\ lecs # lectures
    /\ lectures' = lecs
    /\ scores' = <<>>
    /\ UNCHANGED <<tag_prototypes, tag_stats, tag_thresholds, ever_carried, last_op>>
    /\ UNCHANGED otherThanKNN

\* PrototypeKNN.__init__
FreshIndex ==
    /\ tag_prototypes = <<>>
    /\ tag_stats = <<>>
    /\ tag_thresholds = <<>>
    /\ scores = <<>>
    /\ ever_carried = {}
    /\ last_op = "new"

IdleKNN == lectures = <<>> /\ FreshIndex

InitKNNVars == lectures \in SeqsUpTo(LectureTypes, MaxLectures) /\ FreshIndex

NextKNN ==
    \/ BuildPrototypes
    \/ CalibrateThresholds
    \/ \E e \in Vectors : ScoreLecture(e)
    \/ \E lecs \in RetrainCorpora : SwitchCorpus(lecs)

(***************************************************************************)
(* _find_precision_threshold applied to lists drawn from ScoreValues       *)
(***************************************************************************)
ScoreValues == {300, 600, 900}
TargetValues == {50, 90}

IsSortedDesc(xs) == \A i \in 1..(Len(xs) - 1) : xs[i] >= xs[i + 1]

IdleThreshold ==
    /\ positives = <<>>
    /\ negatives = <<>>
    /\ target_precision = config_target_precision
    /\ found_threshold = <<>>

\* calibrate_thresholds calls the search with sorted lists, positives non-empty
InitThresholdVars ==
    /\ positives \in {p \in SeqsUpTo(ScoreValues, MaxScores) : p # <<>> /\ IsSortedDesc(p)}
    /\ negatives \in {n \in SeqsUpTo(ScoreValues, MaxScores) : IsSortedDesc(n)}
    /\ target_precision \in TargetValues
    /\ found_threshold = <<>>

CallFindThreshold ==
    /\ found_threshold = <<>>
    /\ found_threshold' = <<find_precision_threshold(positives, negatives, target_precision)>>
    /\ UNCHANGED <<positives, negatives, target_precision>>
    /\ UNCHANGED otherThanThreshold

NextThreshold == CallFindThreshold

(***************************************************************************)
(* _cosine_similarity applied to pairs drawn from FloatVectors             *)
(***************************************************************************)
\* the zero vector, unit vectors, vectors of norm below and above 1.0 with
\* components of both signs; every non-zero component is 0.1 or more in
\* magnitude, so that no square falls below the grid
FloatVectors ==
    { <<0, 0>>, E1, D, <<300, 400>>, <<-300, 400>>, <<500, 500>>,
      <<1000, 1000>>, <<-1000, -1000>>, <<5200, 1200>>, <<-5200, -1200>> }

IdleCosine ==
    /\ arg_vec1 = <<0, 0>>
    /\ arg_vec2 = <<0, 0>>
    /\ similarity = <<>>

InitCosineVars ==
    /\ arg_vec1 \in FloatVectors
    /\ arg_vec2 \in FloatVectors
    /\ similarity = <<>>

CallCosineSimilarity ==
    /\ similarity = <<>>
    /\ similarity' = <<cosine_similarity(arg_vec1, arg_vec2)>>
    /\ UNCHANGED <<arg_vec1, arg_vec2>>
    /\ UNCHANGED otherThanCosine

NextCosine == CallCosineSimilarity

(***************************************************************************)
(* api_server.py: loading the trained artifacts and /suggest-tags          *)
(* Confidences are thousandths.                                            *)
(***************************************************************************)
high_confidence_threshold == 800
llm_borderline_lower == 500

\* Config(): scoring_mode comes from the environment
Configs == {[scoring_mode |-> "full_quality"], [scoring_mode |-> "reasoning"]}

Suggestion(label_id, confidence) == [label_id |-> label_id, confidence |-> confidence]

\* what the scorers admit for a request, sorted by confidence: the list
\* score_lecture_fast arrives at, or the list score_lecture_with_reasoning
\* arrives at (either is empty when no label is admissible)
AdmittedLists ==
    { <<>>,
      <<Suggestion("L1", 850)>>,
      <<Suggestion("L2", 700)>>,
      <<Suggestion("L1", 850), Suggestion("L2", 700)>> }

Request(lecture, labels, mode, admitted, approved) ==
    [has_lecture |-> lecture, has_labels |-> labels, scoring_mode |-> mode,
     admitted |-> admitted, approved_ids |-> approved]

\* bodies of POST /suggest-tags
Requests ==
    { Request(lecture, labels, mode, admitted, approved) :
        lecture \in BOOLEAN, labels \in BOOLEAN,
        mode \in {None, "fast", "full_quality", "reasoning"},
        admitted \in AdmittedLists, approved \in {{}, {"L2"}} }

Raised == [raised |-> TRUE, suggestions |-> <<>>]
Returned(suggestions) == [raised |-> FALSE, suggestions |-> suggestions]

\* score_lecture_fast
score_lecture_fast(req, loaded) ==
    IF ~loaded THEN Raised ELSE Returned(req.admitted)

\* score_lecture_with_arbiter
score_lecture_with_arbiter(req, loaded) ==
    IF ~loaded THEN Raised
    ELSE LET keeps(sg) ==
                 \/ sg.confidence >= high_confidence_threshold
                 \/ /\ sg.confidence >= llm_borderline_lower
                    /\ sg.label_id \in req.approved_ids
         IN  Returned(SelectSeq(score_lecture_fast(req, loaded).suggestions, keeps))

\* score_lecture_with_reasoning: reading config.llm_model raises when the
\* global config is still None
score_lecture_with_reasoning(req, cfg) ==
    IF cfg = <<>> THEN Raised ELSE Returned(req.admitted)

\* score_lecture_v2
score_lecture_v2(req, loaded, cfg) ==
    IF req.scoring_mode = None /\ cfg = <<>> THEN Raised
    ELSE LET mode == IF req.scoring_mode # None THEN req.scoring_mode
                     ELSE cfg[1].scoring_mode
         IN  IF mode = "reasoning" THEN score_lecture_with_reasoning(req, cfg)
             ELSE IF mode = "full_quality" THEN score_lecture_with_arbiter(req, loaded)
             ELSE score_lecture_fast(req, loaded)

Response(status, suggestions) == [status |-> status, suggestions |-> suggestions]

\* suggest_tags
suggest_tags(req, loaded, cfg) ==
    IF ~req.has_lecture \/ ~req.has_labels THEN Response(400, <<>>)
    ELSE LET scored == score_lecture_v2(req, loaded, cfg)
         IN  IF scored.raised THEN Response(500, <<>>)
             ELSE Response(200, scored.suggestions)

\* variant of the load that creates the Config before looking at the result
ConfigAfterLoad_Early(found, cfg, new) == <<new>>

\* the global config once load_prototypes_from_db has run
ConfigAfterLoad(found, cfg, new) == IF found THEN <<new>> ELSE cfg

\* load_prototypes_from_db (at start-up, after training, on /reload-prototypes);
\* db_ok is FALSE when the database cannot be reached
LoadPrototypes(db_ok, new) ==
    /\ LET found == db_ok /\ stored_version
       IN  /\ config' = ConfigAfterLoad(found, config, new)
           /\ prototypes_loaded' = (prototypes_loaded \/ found)
    /\ UNCHANGED <<stored_version, api_request, api_response>>
    /\ UNCHANGED otherThanApi

\* POST /train: train_from_data saves a version, then the prototypes are reloaded
Train(new) ==
    /\ stored_version' = TRUE
    /\ config' = ConfigAfterLoad(TRUE, config, new)
    /\ prototypes_loaded' = TRUE
    /\ UNCHANGED <<api_request, api_response>>
    /\ UNCHANGED otherThanApi

\* POST /suggest-tags
SuggestTags(req) ==
    /\ api_request' = [body |-> req, loaded |-> prototypes_loaded]
    /\ api_response' = suggest_tags(req, prototypes_loaded, config)
    /\ UNCHANGED <<stored_version, prototypes_loaded, config>>
    /\ UNCHANGED otherThanApi

NoRequest == [body |-> Request(FALSE, FALSE, None, <<>>, {}), loaded |-> FALSE]

IdleApi ==
    /\ stored_version = FALSE
    /\ prototypes_loaded = FALSE
    /\ config = <<>>
    /\ api_request = NoRequest
    /\ api_response = Response(0, <<>>)

\* the module has been imported: nothing is loaded yet
InitApiVars ==
    /\ stored_version \in BOOLEAN
    /\ prototypes_loaded = FALSE
    /\ config = <<>>
    /\ api_request = NoRequest
    /\ api_response = Response(0, <<>>)

NextApi ==
    \/ \E db_ok \in BOOLEAN : \E new \in Configs : LoadPrototypes(db_ok, new)
    \/ \E new \in Configs : Train(new)
    \/ \E req \in Requests : SuggestTags(req)

(***************************************************************************)
(* prototype_storage.py on PostgreSQL (READ COMMITTED, the default level). *)
(* All saves and loads use version_name 'default'.  A transaction sees the *)
(* rows committed when its statement starts and its own rows; an UPDATE    *)
(* waits for a row another open transaction has updated.                   *)
(***************************************************************************)
MaxVersions == 3   \* rows of prototype_versions explored

Savers == {1, 2}   \* concurrent callers of save_prototypes

Blob(protos, thresholds, stats) ==
    [tag_prototypes |-> protos, tag_thresholds |-> thresholds, tag_stats |-> stats]

Stats(n) == [num_examples |-> n, is_low_data |-> n < low_data_tag_threshold]

\* trained artifacts as build_prototypes and calibrate_thresholds leave them
Blobs ==
    { Blob([t \in {"T1"} |-> E1], [t \in {"T1"} |-> 600], [t \in {"T1"} |-> Stats(2)]),
      Blob([t \in {"T1", "T2"} |-> IF t = "T1" THEN D ELSE E2],
           [t \in {"T1", "T2"} |-> IF t = "T1" THEN 650 ELSE 700],
           [t \in {"T1", "T2"} |-> IF t = "T1" THEN Stats(5) ELSE Stats(1)]),
      Blob([t \in {"T3"} |-> D], [t \in {"T3"} |-> 600], [t \in {"T3"} |-> Stats(1)]) }

\* the tag_prototypes rows save_prototypes inserts for one version; the
\* vector is a float32 array written as JSON numbers, which reads back as
\* the same float32 array
TagRows(blob) ==
    [t \in DOMAIN blob.tag_prototypes |->
        [prototype_vector |-> blob.tag_prototypes[t],
         threshold |-> IF t \in DOMAIN blob.tag_thresholds
                       THEN blob.tag_thresholds[t] ELSE 500,
         num_examples |-> IF t \in DOMAIN blob.tag_stats
                          THEN blob.tag_stats[t].num_examples ELSE 0,
         avg_similarity |-> 0,
         tag_name_he |-> "",
         category |-> "Unknown"]]

\* what load_prototypes builds from the rows of one version
FromRows(rows) ==
    Blob([t \in DOMAIN rows |-> rows[t].prototype_vector],
         [t \in DOMAIN rows |-> rows[t].threshold],
         [t \in DOMAIN rows |->
             [tag_name |-> rows[t].tag_name_he,
              category |-> rows[t].category,
              num_examples |-> rows[t].num_examples,
              avg_similarity |-> rows[t].avg_similarity]])

NoTxn == [pc |-> "idle", started_at |-> 0, blob |-> <<>>, snapshot |-> {}, version_id |-> 0]

\* committed rows that are active
ActiveIds(vs) == {i \in 1..Len(vs) : vs[i].committed /\ vs[i].is_active}

\* save_prototypes opens its transaction with the UPDATE ... SET is_active =
\* FALSE: the statement takes its snapshot of the active rows
BeginSave(sv, blob) ==
    /\ txn[sv].pc = "idle"
    /\ Len(versions) + Cardinality({o \in Savers : txn[o].pc \in {"updating", "updated"}})
          < MaxVersions
    /\ txn' = [txn EXCEPT ![sv] = [pc |-> "updating", started_at |-> clock, blob |-> blob,
                                   snapshot |-> ActiveIds(versions), version_id |-> 0]]
    /\ clock' = clock + 1
    /\ UNCHANGED <<versions, commit_log, load_result, restored_scores>>
    /\ UNCHANGED otherThanStorage

\* the UPDATE completes once no row of its snapshot is held by another open
\* transaction; it deactivates the rows of the snapshot that are still active
FinishUpdate(sv) ==
    /\ txn[sv].pc = "updating"
    /\ \A i \in txn[sv].snapshot : versions[i].locked_by \in {0, sv}
    /\ versions' = [i \in 1..Len(versions) |->
                       IF i \in txn[sv].snapshot /\ versions[i].is_active
                       THEN [versions[i] EXCEPT !.locked_by = sv]
                       ELSE versions[i]]
    /\ txn' = [txn EXCEPT ![sv].pc = "updated"]
    /\ UNCHANGED <<clock, commit_log, load_result, restored_scores>>
    /\ UNCHANGED otherThanStorage

\* INSERT INTO prototype_versions ... RETURNING id, then the tag rows;
\* created_at defaults to CURRENT_TIMESTAMP, the start of the transaction
InsertVersion(sv) ==
    /\ txn[sv].pc = "updated"
    /\ versions' = Append(versions,
                          [created_at |-> txn[sv].started_at, is_active |-> TRUE,
                           committed |-> FALSE, locked_by |-> 0,
                           rows |-> TagRows(txn[sv].blob), saved |-> txn[sv].blob])
    /\ txn' = [txn EXCEPT ![sv].pc = "inserted", ![sv].version_id = Len(versions) + 1]
    /\ UNCHANGED <<clock, commit_log, load_result, restored_scores>>
    /\ UNCHANGED otherThanStorage

\* conn.commit(): the new version becomes visible, the deactivations apply
\* and the row locks are released; save_prototypes returns
CommitSave(sv) ==
    /\ txn[sv].pc = "inserted"
    /\ versions' = [i \in 1..Len(versions) |->
                       IF i = txn[sv].version_id
                       THEN [versions[i] EXCEPT !.committed = TRUE]
                       ELSE IF versions[i].locked_by = sv
                       THEN [versions[i] EXCEPT !.is_active = FALSE, !.locked_by = 0]
                       ELSE versions[i]]
    /\ commit_log' = Append(commit_log, txn[sv].version_id)
    /\ txn' = [txn EXCEPT ![sv] = NoTxn]
    /\ UNCHANGED <<clock, load_result, restored_scores>>
    /\ UNCHANGED otherThanStorage

\* SELECT id ... WHERE is_active = TRUE ORDER BY created_at DESC LIMIT 1
NewestActive(vs) ==
    {i \in ActiveIds(vs) : \A j \in ActiveIds(vs) : vs[j].created_at <= vs[i].created_at}

\* load_prototypes: None when no version is active
LoadStored ==
    /\ IF ActiveIds(versions) = {}
       THEN load_result' = <<>>
       ELSE \E i \in NewestActive(versions) :
               load_result' = << [version_id |-> i,
                             latest_saved |-> commit_log[Len(commit_log)],
                             blob |-> FromRows(versions[i].rows)] >>
    /\ restored_scores' = <<>>
    /\ UNCHANGED <<versions, txn, clock, commit_log>>
    /\ UNCHANGED otherThanStorage

\* load_prototypes_from_db hands the loaded dicts to a new PrototypeKNN, and
\* score_lecture_fast has that index score one lecture embedding
ScoreRestored(lecture_embedding) ==
    /\ load_result # <<>>
    /\ LET got == load_result[1].blob
       IN  restored_scores' =
             << [lecture_embedding |-> lecture_embedding,
                 scores |-> [t \in DOMAIN got.tag_prototypes |->
                               compute_score(got.tag_prototypes, got.tag_stats,
                                             lecture_embedding, t)]] >>
    /\ UNCHANGED <<versions, txn, clock, commit_log, load_result>>
    /\ UNCHANGED otherThanStorage

IdleStorage ==
    /\ versions = <<>>
    /\ txn = [sv \in Savers |-> NoTxn]
    /\ clock = 0
    /\ commit_log = <<>>
    /\ load_result = <<>>
    /\ restored_scores = <<>>

\* _ensure_schema has created the empty tables
InitStorageVars == IdleStorage

NextStorage ==
    \/ \E sv \in Savers : \E blob \in Blobs : BeginSave(sv, blob)
    \/ \E sv \in Savers : FinishUpdate(sv)
    \/ \E sv \in Savers : InsertVersion(sv)
    \/ \E sv \in Savers : CommitSave(sv)
    \/ LoadStored
    \/ \E e \in Vectors : ScoreRestored(e)

(***************************************************************************)
(* EnsembleScorer.score_lecture: the two scorers' answers are inputs       *)
(***************************************************************************)
MaxEnsembleProto == 3    \* most labels scored by the prototype scorer
MaxEnsembleReason == 2   \* most suggestions returned by the reasoning scorer

\* config.category_thresholds, thousandths
category_thresholds ==
    [c \in {"Topic", "Persona", "Tone", "Format", "Audience", "default"} |->
        CASE c = "Topic" -> 650
          [] c = "Persona" -> 600
          [] c = "Tone" -> 550
          [] c = "Format" -> 500
          [] c = "Audience" -> 600
          [] OTHER -> 600]

\* category_thresholds.get(category, category_thresholds.get('default', 0.60))
CategoryThreshold(category) ==
    IF category \in DOMAIN category_thresholds
    THEN category_thresholds[category]
    ELSE category_thresholds["default"]

\* self.tags_data of the scorer: label id -> category
ensemble_tags_data ==
    [t \in {"A", "B", "C"} |->
        CASE t = "A" -> "Topic" [] t = "B" -> "Format" [] OTHER -> "Unknown"]

\* a score per label the prototype scorer can report; D is not in tags_data
PrototypeScoreOf ==
    [t \in {"A", "B", "C", "D"} |->
        CASE t = "A" -> 910 [] t = "B" -> 450 [] t = "C" -> 910 [] OTHER -> 800]

\* dicts tag_id -> score, as the sequence of their (key, value) pairs
PrototypeScoreDicts ==
    { [i \in 1..Len(o) |-> [tag_id |-> o[i], score |-> PrototypeScoreOf[o[i]]]] :
        o \in UNION { Orders(S) : S \in { T \in SUBSET DOMAIN PrototypeScoreOf :
                                            Cardinality(T) <= MaxEnsembleProto } } }

\* suggestions the reasoning scorer can return
EnsembleReasonItems ==
    { Item("A", None, 600, <<>>),
      Item("B", None, 900, <<>>),
      Item("E", None, 600, <<>>),
      Item("E", None, 950, <<>>) }

\* the list built by the loop over prototype_scores.items()
RECURSIVE PrototypeSuggestionsFrom(_, _)
PrototypeSuggestionsFrom(pscores, i) ==
    IF i > Len(pscores) THEN <<>>
    ELSE (IF pscores[i].tag_id \in DOMAIN ensemble_tags_data
          THEN << Item(pscores[i].tag_id, None, pscores[i].score,
                       <<CategoryThreshold(ensemble_tags_data[pscores[i].tag_id])>>) >>
          ELSE <<>>)
         \o PrototypeSuggestionsFrom(pscores, i + 1)

\* xs[:k] for k >= 0
Take(xs, k) == SubSeq(xs, 1, Min(k, Len(xs)))

\* variant of the final step that cuts the fused entries to K before they
\* are sorted
TopKOfFused_CutFirst(reasoning, protos, order, w, k) ==
    SortDesc(Take(CombineLoop(RMap(reasoning, protos), PMap(reasoning, protos),
                              order, 1, w.rw, w.pw, w.bonus), k))

\* combined_suggestions[:self.config.top_k_tags]
TopKOfFused(reasoning, protos, order, w, k) ==
    Take(combine_reasoning_and_prototype(reasoning, protos, order, w.rw, w.pw, w.bonus), k)

\* score_lecture(lecture, all_tags, lecture_embedding, tag_embeddings)
ScoreLectureEnsemble ==
    /\ ~ensemble_done
    /\ LET protos == PrototypeSuggestionsFrom(prototype_scores, 1)
       IN  \E order \in LabelOrders(scorer_reasoning, protos) :
              final_suggestions' =
                  TopKOfFused(scorer_reasoning, protos, order, ensemble_weights, top_k_tags)
    /\ ensemble_done' = TRUE
    /\ UNCHANGED <<top_k_tags, ensemble_weights, scorer_reasoning, prototype_scores>>
    /\ UNCHANGED otherThanEnsemble

IdleEnsemble ==
    /\ top_k_tags = 7
    /\ ensemble_weights = [rw |-> 50, pw |-> 50, bonus |-> 10]
    /\ scorer_reasoning = <<>>
    /\ prototype_scores = <<>>
    /\ final_suggestions = <<>>
    /\ ensemble_done = FALSE

\* a scorer has been built and both underlying scorers have answered
InitEnsembleVars ==
    /\ top_k_tags \in {1, 2, 7}
    /\ ensemble_weights \in WeightConfigs
    /\ scorer_reasoning \in SeqsUpTo(EnsembleReasonItems, MaxEnsembleReason)
    /\ prototype_scores \in PrototypeScoreDicts
    /\ final_suggestions = <<>>
    /\ ensemble_done = FALSE

NextEnsemble == ScoreLectureEnsemble

(***************************************************************************)
(* api_server.py: load_prototypes_from_db next to score_lecture_fast.      *)
(* The server handles requests in threads; the globals are plain module    *)
(* variables, so a thread can run between any two statements of another.   *)
(***************************************************************************)
MaxLoads == 3        \* PrototypeKNN objects created by loads
MaxDbVersions == 2   \* versions stored by training

\* PrototypeKNN.__init__: three empty dicts
NewKNN == [tag_prototypes |-> 0, tag_thresholds |-> 0, tag_stats |-> 0]

LoaderIdle == [pc |-> "idle", result |-> 0]

ScorerIdle ==
    [pc |-> "idle", knn |-> 0, cache |-> 0, tag_prototypes |-> 0, tag_stats |-> 0,
     tag_thresholds |-> 0]

\* train_from_data has saved a new version (the reload that follows is a Load)
SaveTrained ==
    /\ db_version < MaxDbVersions
    /\ db_version' = db_version + 1
    /\ UNCHANGED <<knn_objects, prototype_knn, tag_embeddings_cache, loaded_flag,
                   loader, scorer>>
    /\ UNCHANGED otherThanReload

\* result = storage.load_prototypes(...); `if not result: return False`
LoadRead ==
    /\ loader.pc = "idle"
    /\ Len(knn_objects) < MaxLoads
    /\ loader' = IF db_version = 0 THEN LoaderIdle
                 ELSE [pc |-> "create", result |-> db_version]
    /\ UNCHANGED <<db_version, knn_objects, prototype_knn, tag_embeddings_cache,
                   loaded_flag, scorer>>
    /\ UNCHANGED otherThanReload

\* config = Config(); prototype_knn = PrototypeKNN(config)
LoadCreate ==
    /\ loader.pc = "create"
    /\ knn_objects' = Append(knn_objects, NewKNN)
    /\ prototype_knn' = Len(knn_objects) + 1
    /\ loader' = [loader EXCEPT !.pc = "tag_prototypes"]
    /\ UNCHANGED <<db_version, tag_embeddings_cache, loaded_flag, scorer>>
    /\ UNCHANGED otherThanReload

\* prototype_knn.tag_prototypes = ..., .tag_thresholds = ..., .tag_stats = ...
LoadAssign ==
    /\ loader.pc \in {"tag_prototypes", "tag_thresholds", "tag_stats"}
    /\ knn_objects' =
          [knn_objects EXCEPT ![prototype_knn] =
              IF loader.pc = "tag_prototypes" THEN [@ EXCEPT !.tag_prototypes = loader.result]
              ELSE IF loader.pc = "tag_thresholds" THEN [@ EXCEPT !.tag_thresholds = loader.result]
              ELSE [@ EXCEPT !.tag_stats = loader.result]]
    /\ loader' = [loader EXCEPT !.pc =
                      IF loader.pc = "tag_prototypes" THEN "tag_thresholds"
                      ELSE IF loader.pc = "tag_thresholds" THEN "tag_stats"
                      ELSE "cache"]
    /\ UNCHANGED <<db_version, prototype_knn, tag_embeddings_cache, loaded_flag, scorer>>
    /\ UNCHANGED otherThanReload

\* tag_embeddings_cache = tag_embeddings
LoadCache ==
    /\ loader.pc = "cache"
    /\ tag_embeddings_cache' = loader.result
    /\ loader' = [loader EXCEPT !.pc = "flag"]
    /\ UNCHANGED <<db_version, knn_objects, prototype_knn, loaded_flag, scorer>>
    /\ UNCHANGED otherThanReload

\* prototypes_loaded = True; return True
LoadFlag ==
    /\ loader.pc = "flag"
    /\ loaded_flag' = TRUE
    /\ loader' = LoaderIdle
    /\ UNCHANGED <<db_version, knn_objects, prototype_knn, tag_embeddings_cache, scorer>>
    /\ UNCHANGED otherThanReload

\* score_lecture_fast: `if not prototypes_loaded: raise RuntimeError`
ScoreCheck ==
    /\ scorer.pc \in {"idle", "done", "raised"}
    /\ scorer' = [ScorerIdle EXCEPT !.pc = IF loaded_flag THEN "embedded" ELSE "raised"]
    /\ UNCHANGED <<db_version, knn_objects, prototype_knn, tag_embeddings_cache,
                   loaded_flag, loader>>
    /\ UNCHANGED otherThanReload

\* prototype_knn.score_lecture(lecture_embedding, tag_embeddings_cache): the
\* two globals are read, one after the other, when the call is evaluated
ScoreReadGlobals ==
    /\ scorer.pc \in {"embedded", "knn_read"}
    /\ scorer' = IF scorer.pc = "embedded"
                 THEN [scorer EXCEPT !.pc = "knn_read", !.knn = prototype_knn]
                 ELSE [scorer EXCEPT !.pc = "tag_prototypes", !.cache = tag_embeddings_cache]
    /\ UNCHANGED <<db_version, knn_objects, prototype_knn, tag_embeddings_cache,
                   loaded_flag, loader>>
    /\ UNCHANGED otherThanReload

\* PrototypeKNN.score_lecture reads self.tag_prototypes, then (in
\* _compute_score) self.tag_stats, then self.tag_thresholds
ScoreReadIndex ==
    /\ scorer.pc \in {"tag_prototypes", "tag_stats", "tag_thresholds"}
    /\ LET obj == knn_objects[scorer.knn]
       IN  scorer' =
             IF scorer.pc = "tag_prototypes"
             THEN [scorer EXCEPT !.pc = "tag_stats", !.tag_prototypes = obj.tag_prototypes]
             ELSE IF scorer.pc = "tag_stats"
             THEN [scorer EXCEPT !.pc = "tag_thresholds", !.tag_stats = obj.tag_stats]
             ELSE [scorer EXCEPT !.pc = "done", !.tag_thresholds = obj.tag_thresholds]
    /\ UNCHANGED <<db_version, knn_objects, prototype_knn, tag_embeddings_cache,
                   loaded_flag, loader>>
    /\ UNCHANGED otherThanReload

\* the module has been imported: every global has its initial value
IdleReload ==
    /\ db_version = 0
    /\ knn_objects = <<>>
    /\ prototype_knn = 0
    /\ tag_embeddings_cache = 0
    /\ loaded_flag = FALSE
    /\ loader = LoaderIdle
    /\ scorer = ScorerIdle

InitReloadVars ==
    /\ db_version \in {0, 1}
    /\ knn_objects = <<>>
    /\ prototype_knn = 0
    /\ tag_embeddings_cache = 0
    /\ loaded_flag = FALSE
    /\ loader = LoaderIdle
    /\ scorer = ScorerIdle

NextReload ==
    \/ SaveTrained
    \/ LoadRead
    \/ LoadCreate
    \/ LoadAssign
    \/ LoadCache
    \/ LoadFlag
    \/ ScoreCheck
    \/ ScoreReadGlobals
    \/ ScoreReadIndex

(***************************************************************************)
(* airtable_sync.py: retry_with_backoff.  Delays are seconds.              *)
(***************************************************************************)
MaxRetryCount == 4   \* largest max_retries explored

RetryArgs(max_retries, initial_delay, backoff_factor, max_delay) ==
    [max_retries |-> max_retries, initial_delay |-> initial_delay,
     backoff_factor |-> backoff_factor, max_delay |-> max_delay]

\* the defaults of the decorator (the only way the repository applies it)
DefaultRetryArgs == RetryArgs(3, 1, 2, 30)

\* arguments explored: the defaults and others with initial_delay <= max_delay
RetryArgSets ==
    { RetryArgs(n, t[1], t[2], t[3]) :
        n \in 0..MaxRetryCount,
        t \in { <<1, 2, 30>>, <<10, 2, 30>>, <<10, 3, 30>>, <<30, 2, 30>>,
                 <<2, 1, 30>>, <<5, 2, 8>> } }

Calling == [pc |-> "calling", attempt |-> 0]

\* variant of the delay update without the cap
NextDelay_Uncapped(d, args) == d * args.backoff_factor

\* delay = min(delay * backoff_factor, max_delay)
NextDelay(d, args) == Min(d * args.backoff_factor, args.max_delay)

\* one pass of the loop in which func returns: the wrapper returns its result
AttemptReturns ==
    /\ retry_outcome.pc = "calling"
    /\ attempts' = attempts + 1
    /\ retry_outcome' = [pc |-> "returned", attempt |-> attempts + 1]
    /\ UNCHANGED <<retry_args, delay, sleeps, last_exception>>
    /\ UNCHANGED otherThanRetry

\* one pass of the loop in which func raises: re-raise on the last attempt,
\* otherwise sleep and lengthen the delay
AttemptRaises ==
    /\ retry_outcome.pc = "calling"
    /\ attempts' = attempts + 1
    /\ last_exception' = attempts + 1
    /\ IF attempts = retry_args.max_retries
       THEN /\ retry_outcome' = [pc |-> "raised", attempt |-> attempts + 1]
            /\ UNCHANGED <<delay, sleeps>>
       ELSE /\ sleeps' = Append(sleeps, delay)
            /\ delay' = NextDelay(delay, retry_args)
            /\ UNCHANGED retry_outcome
    /\ UNCHANGED retry_args
    /\ UNCHANGED otherThanRetry

IdleRetry ==
    /\ retry_args = DefaultRetryArgs
    /\ attempts = 0
    /\ delay = DefaultRetryArgs.initial_delay
    /\ sleeps = <<>>
    /\ last_exception = 0
    /\ retry_outcome = Calling

\* the wrapper has been called: delay = initial_delay; last_exception = None
InitRetryVars ==
    /\ retry_args \in RetryArgSets
    /\ attempts = 0
    /\ delay = retry_args.initial_delay
    /\ sleeps = <<>>
    /\ last_exception = 0
    /\ retry_outcome = Calling

NextRetry ==
    \/ AttemptReturns
    \/ AttemptRaises

(***************************************************************************)
(* airtable_sync.py: AirtableSync.sync_lecturer on one lecturer record.    *)
(* The record lives in Airtable, where other users edit it too; a read or  *)
(* an update that still fails after its retries is one failing step.       *)
(***************************************************************************)
MaxApproved == 2   \* longest approved_tag_ids explored

MaxEdits == 2      \* edits by other Airtable users explored

SyncTags == {"recA", "recB", "recC"}

\* [tag for tag in approved_tag_ids if tag not in tags_before]
TagsToAdd(approved, before) == SelectSeq(approved, LAMBDA tag : tag \notin before)

\* variant of the final tag list that replaces the tags (preserve_existing=False)
FinalTags_Replace(current, new_tags) == SeqToSet(new_tags)

\* list(set(current_tags) | set(new_tags)); the order of the list is not modelled
FinalTags(current, new_tags) == current \cup SeqToSet(new_tags)

SyncResult(before, after, added, success) ==
    [tags_before |-> before, tags_after |-> after, tags_added |-> added,
     success |-> success]

\* sync_lecturer up to its call of update_lecturer_tags: get_lecturer_record
\* returns the record or None
SyncRead ==
    /\ sync_pc = "start"
    /\ \/ /\ sync_result' = << SyncResult({}, {}, <<>>, FALSE) >>
          /\ sync_pc' = "done"
          /\ UNCHANGED tags_before
       \/ /\ tags_before' = airtable_tags
          /\ IF TagsToAdd(approved_tag_ids, airtable_tags) = <<>>
             THEN /\ sync_result' = << SyncResult(airtable_tags, airtable_tags, <<>>, TRUE) >>
                  /\ sync_pc' = "done"
             ELSE /\ sync_pc' = "update"
                  /\ UNCHANGED sync_result
    /\ UNCHANGED <<airtable_tags, approved_tag_ids, current_tags, table_updates, edits>>
    /\ UNCHANGED otherThanSync

\* update_lecturer_tags up to _update_with_retry, and the return of
\* sync_lecturer when no update is issued
UpdateRead ==
    /\ sync_pc = "update"
    /\ \/ /\ sync_result' = << SyncResult(tags_before, tags_before, <<>>, FALSE) >>
          /\ sync_pc' = "done"
          /\ UNCHANGED current_tags
       \/ /\ current_tags' = airtable_tags
          /\ IF FinalTags(airtable_tags, approved_tag_ids) = airtable_tags
             THEN /\ sync_result' =
                        << SyncResult(tags_before,
                                      tags_before \cup SeqToSet(approved_tag_ids),
                                      TagsToAdd(approved_tag_ids, tags_before), TRUE) >>
                  /\ sync_pc' = "done"
             ELSE /\ sync_pc' = "write"
                  /\ UNCHANGED sync_result
    /\ UNCHANGED <<airtable_tags, approved_tag_ids, tags_before, table_updates, edits>>
    /\ UNCHANGED otherThanSync

\* table.update(lecturer_external_id, {field: final_tags}) and the return of
\* sync_lecturer: the update is applied, or it raises after its retries
UpdateWrite ==
    /\ sync_pc = "write"
    /\ \/ /\ airtable_tags' = FinalTags(current_tags, approved_tag_ids)
          /\ table_updates' = Append(table_updates,
                                      [read |-> current_tags,
                                       written |-> FinalTags(current_tags, approved_tag_ids)])
          /\ sync_result' =
                << SyncResult(tags_before,
                              tags_before \cup SeqToSet(approved_tag_ids),
                              TagsToAdd(approved_tag_ids, tags_before), TRUE) >>
       \/ /\ sync_result' = << SyncResult(tags_before, tags_before, <<>>, FALSE) >>
          /\ UNCHANGED <<airtable_tags, table_updates>>
    /\ sync_pc' = "done"
    /\ UNCHANGED <<approved_tag_ids, tags_before, current_tags, edits>>
    /\ UNCHANGED otherThanSync

\* another user of the Airtable base links or unlinks a tag of the record
ExternalEdit(tag) ==
    /\ sync_pc # "done"
    /\ edits < MaxEdits
    /\ edits' = edits + 1
    /\ airtable_tags' = IF tag \in airtable_tags
                         THEN airtable_tags \ {tag}
                         ELSE airtable_tags \cup {tag}
    /\ UNCHANGED <<approved_tag_ids, sync_pc, tags_before, current_tags,
                   table_updates, sync_result>>
    /\ UNCHANGED otherThanSync

IdleSync ==
    /\ airtable_tags = {}
    /\ approved_tag_ids = <<>>
    /\ sync_pc = "start"
    /\ tags_before = {}
    /\ current_tags = {}
    /\ table_updates = <<>>
    /\ sync_result = <<>>
    /\ edits = 0

\* sync_lecturer has been called for a record with any tags
InitSyncVars ==
    /\ airtable_tags \in SUBSET SyncTags
    /\ approved_tag_ids \in SeqsUpTo(SyncTags, MaxApproved)
    /\ sync_pc = "start"
    /\ tags_before = {}
    /\ current_tags = {}
    /\ table_updates = <<>>
    /\ sync_result = <<>>
    /\ edits = 0

NextSync ==
    \/ SyncRead
    \/ UpdateRead
    \/ UpdateWrite
    \/ \E tag \in SyncTags : ExternalEdit(tag)

(***************************************************************************)
(* Specifications                                                          *)
(***************************************************************************)
\* every component other than `part` is in its idle state
IdleExcept(part) ==
    /\ part = "combine" \/ IdleCombine
    /\ part = "category" \/ IdleCategory
    /\ part = "knn" \/ IdleKNN
    /\ part = "threshold" \/ IdleThreshold
    /\ part = "cosine" \/ IdleCosine
    /\ part = "api" \/ IdleApi
    /\ part = "storage" \/ IdleStorage
    /\ part = "ensemble" \/ IdleEnsemble
    /\ part = "reload" \/ IdleReload
    /\ part = "retry" \/ IdleRetry
    /\ part = "sync" \/ IdleSync

InitCombine == InitCombineVars /\ IdleExcept("combine")

NextCombine == CallCombine

SpecCombine == InitCombine /\ [][NextCombine]_vars

InitCategory == InitCategoryVars /\ IdleExcept("category")

SpecCategory == InitCategory /\ [][NextCategory]_vars

InitKNN == InitKNNVars /\ IdleExcept("knn")

SpecKNN == InitKNN /\ [][NextKNN]_vars

InitThreshold == InitThresholdVars /\ IdleExcept("threshold")

SpecThreshold == InitThreshold /\ [][NextThreshold]_vars

InitCosine == InitCosineVars /\ IdleExcept("cosine")

SpecCosine == InitCosine /\ [][NextCosine]_vars

InitApi == InitApiVars /\ IdleExcept("api")

SpecApi == InitApi /\ [][NextApi]_vars

InitStorage == InitStorageVars /\ IdleExcept("storage")

SpecStorage == InitStorage /\ [][NextStorage]_vars

InitEnsemble == InitEnsembleVars /\ IdleExcept("ensemble")

SpecEnsemble == InitEnsemble /\ [][NextEnsemble]_vars

InitReload == InitReloadVars /\ IdleExcept("reload")

SpecReload == InitReload /\ [][NextReload]_vars

InitRetry == InitRetryVars /\ IdleExcept("retry")

SpecRetry == InitRetry /\ [][NextRetry]_vars

InitSync == InitSyncVars /\ IdleExcept("sync")

SpecSync == InitSync /\ [][NextSync]_vars

(***************************************************************************)
(* Properties of Combine                                                   *)
(***************************************************************************)
\* positions of the input items filed under label lid
PositionsOf(items, lid) == {i \in 1..Len(items) : IndexKey(items[i]) = lid}

\* the item the index keeps for lid: the last one in the list
KeptItem(items, lid) ==
    items[CHOOSE i \in PositionsOf(items, lid) :
             \A j \in PositionsOf(items, lid) : j <= i]

InputLabels(items) == {IndexKey(items[i]) : i \in 1..Len(items)} \ {None}

\* the entries of the output list that carry label lid
OutputFor(lid) == {i \in 1..Len(combined) : combined[i].tag_id = lid}

EligiblePositions ==
    {i \in 1..Len(prototype_suggestions) :
        prototype_suggestions[i].score >= ThresholdOf(prototype_suggestions[i])}

\* C1: with an empty reasoning list and at least one prototype suggestion at
\* or above its own threshold, Combine returns exactly one suggestion; it
\* carries the largest eligible prototype score, belongs to an eligible item
\* with that score, and its reasoning_score is 0.
C1_BackfillSingleTop ==
    (combine_calls >= 1 /\ reasoning_suggestions = <<>> /\ EligiblePositions # {})
    => /\ Len(combined) = 1
       /\ combined[1].reasoning_score = 0
       /\ \E i \in EligiblePositions :
             /\ \A j \in EligiblePositions :
                   prototype_suggestions[j].score <= prototype_suggestions[i].score
             /\ combined[1].prototype_score = prototype_suggestions[i].score
             /\ combined[1].tag_id \in {prototype_suggestions[i].tag_id,
                                        prototype_suggestions[i].label_id}

\* a backfill call that had two eligible prototypes of different labels
C1_Witness ==
    /\ combine_calls >= 1
    /\ reasoning_suggestions = <<>>
    /\ \E i, j \in EligiblePositions :
          /\ prototype_suggestions[i].tag_id # prototype_suggestions[j].tag_id
          /\ prototype_suggestions[i].tag_id # None
          /\ prototype_suggestions[j].tag_id # None
          /\ prototype_suggestions[i].score > prototype_suggestions[j].score
    /\ Len(combined) = 1

\* C2: two executions of Combine on the same inputs return identical lists,
\* whatever order the set of label ids is iterated in.
C2_Deterministic ==
    combine_calls >= 2 => combined = prev_combined

\* C3: a label present in both inputs whose prototype score is below
\* (threshold - margin) gets an output entry without the agreement bonus and
\* with score clamp(reasoning_weight*reasoning_score + prototype_weight*prototype_score).
C3_NoBonusBelowMargin ==
    combine_calls >= 1 =>
    \A lid \in InputLabels(reasoning_suggestions) \cap InputLabels(prototype_suggestions) :
        LET r == KeptItem(reasoning_suggestions, lid)
            p == KeptItem(prototype_suggestions, lid)
        IN  p.score < ThresholdOf(p) - PROTOTYPE_THRESHOLD_MARGIN
            => /\ OutputFor(lid) # {}
               /\ \A i \in OutputFor(lid) :
                     /\ combined[i].agreement_bonus_applied = FALSE
                     /\ combined[i].score =
                           Min(100000, Max(0, reasoning_weight * r.score
                                              + prototype_weight * p.score))

\* a call in which a label of both inputs was just below the margin
C3_Witness ==
    /\ combine_calls >= 1
    /\ \E lid \in InputLabels(reasoning_suggestions) \cap InputLabels(prototype_suggestions) :
          LET p == KeptItem(prototype_suggestions, lid)
          IN  /\ p.score = ThresholdOf(p) - PROTOTYPE_THRESHOLD_MARGIN - 1
              /\ OutputFor(lid) # {}

\* C4: with a non-empty reasoning list, a label that occurs only in the
\* prototype input is absent from the output when its score is strictly below
\* its threshold and present when its score is at or above it.
C4_PrototypeOnlyAdmission ==
    (combine_calls >= 1 /\ reasoning_suggestions # <<>>) =>
    \A lid \in InputLabels(prototype_suggestions) \ InputLabels(reasoning_suggestions) :
        LET p == KeptItem(prototype_suggestions, lid)
        IN  IF p.score < ThresholdOf(p)
            THEN OutputFor(lid) = {}
            ELSE OutputFor(lid) # {}

\* a call that dropped one prototype-only label and admitted another
C4_Witness ==
    /\ combine_calls >= 1
    /\ reasoning_suggestions # <<>>
    /\ \E a, b \in InputLabels(prototype_suggestions) \ InputLabels(reasoning_suggestions) :
          /\ KeptItem(prototype_suggestions, a).score
                < ThresholdOf(KeptItem(prototype_suggestions, a))
          /\ KeptItem(prototype_suggestions, b).score
                >= ThresholdOf(KeptItem(prototype_suggestions, b))
          /\ OutputFor(a) = {}
          /\ OutputFor(b) # {}

\* the scenario of C5: prototype {A: 0.91, B: 0.40}, thresholds 0.70,
\* reasoning {A: 0.60}, weights 0.5 / 0.5, bonus 0.1
C5_Scenario ==
    /\ reasoning_weight = 50 /\ prototype_weight = 50 /\ agreement_bonus = 10
    /\ reasoning_suggestions = <<Item("A", None, 600, <<>>)>>
    /\ Len(prototype_suggestions) = 2
    /\ {prototype_suggestions[1], prototype_suggestions[2]}
          = {Item("A", None, 910, <<700>>), Item("B", None, 400, <<700>>)}

\* C5 as stated: in the scenario Combine returns A with the bonus applied and
\* combined score 1.0, and does not return B.
C5_AsStated ==
    (combine_calls >= 1 /\ C5_Scenario)
    => /\ Len(combined) = 1
       /\ combined[1].tag_id = "A"
       /\ combined[1].agreement_bonus_applied
       /\ combined[1].score = 100000

\* C5 amended: in the scenario Combine returns A with the bonus applied and
\* combined score 0.855 (= 0.5*0.60 + 0.5*0.91 + 0.1, no clamping occurs),
\* and does not return B.
C5_ScenarioScore ==
    (combine_calls >= 1 /\ C5_Scenario)
    => /\ Len(combined) = 1
       /\ combined[1].tag_id = "A"
       /\ combined[1].agreement_bonus_applied
       /\ combined[1].score = 85500

\* the scenario has been run
C5_Witness == combine_calls >= 1 /\ C5_Scenario /\ combined # <<>>

(***************************************************************************)
(* Properties of run_per_category_reasoning                                *)
(***************************************************************************)
\* what category c yields on its own: the parse of its own response against
\* its own bucket, the empty result when its bucket is empty
OwnResult(c) ==
    LET tags == Bucket(all_labels, c)
    IN  IF tags = <<>> THEN EmptyResult(c)
        ELSE parse_category_json(fut[c].raw, AllowedIds(tags), c).result

\* C6: when the call returns, every category has an entry; a category whose
\* reasoning call or parse raised is mapped to the empty result, and every
\* other category holds the result of its own response, whatever happened to
\* the failing one.
C6_FailureIsolated ==
    run_pc = "returned" =>
    \A c \in CategorySet :
        /\ c \in DOMAIN results
        /\ fut[c].st = "raised" => results[c] = EmptyResult(c)
        /\ fut[c].st # "raised" => results[c] = OwnResult(c)

\* a returned call in which one reasoning call raised, one parse raised and a
\* third category chose a label
C6_Witness ==
    /\ run_pc = "returned"
    /\ \E c, d, e \in CategorySet :
          /\ fut[c].st = "raised" /\ fut[c].raw = <<>> /\ llm_calls[c] = 1
          /\ fut[d].st = "raised" /\ fut[d].raw # <<>>
          /\ fut[e].st = "done" /\ results[e].chosen_ids # <<>>

\* positions of the well-formed {...} blocks of a response text
WellFormedBlocks(text) == {i \in 1..Len(text) : IsObject(text[i])}

\* C20: when a response text is not valid JSON as a whole, the parse returns
\* the result of its last well-formed {...} block, and the empty result only
\* when the text holds no well-formed block.
C20_LastWellFormedBlockParsed ==
    \A c \in CategorySet :
        (fut[c].st = "done" /\ JsonLoads(fut[c].raw) = <<>>) =>
            LET text == fut[c].raw
                ws == WellFormedBlocks(text)
                allowed == AllowedIds(Bucket(all_labels, c))
            IN  IF ws = {}
                THEN fut[c].result = EmptyResult(c)
                ELSE LET last == CHOOSE i \in ws : \A j \in ws : j <= i
                     IN  fut[c].result =
                             parse_category_json(<<text[last]>>, allowed, c).result

\* the ids a result has chosen
ChosenSet(res) == {res.chosen_ids[i] : i \in 1..Len(res.chosen_ids)}

\* C21: in every result the parse returns, the keys of the confidence map
\* and the keys of the rationales map are among the result's chosen_ids.
C21_MapsCoverOnlyChosen ==
    \A c \in CategorySet :
        fut[c].st = "done" =>
            /\ DOMAIN fut[c].result.confidence \subseteq ChosenSet(fut[c].result)
            /\ DOMAIN fut[c].result.rationales \subseteq ChosenSet(fut[c].result)

\* the chosen_ids the model stated in the response of category c
StatedIds(c) == LoadData(fut[c].raw)[1].chosen_ids

\* position of the first occurrence of id in ids
FirstAt(ids, id) == CHOOSE i \in 1..Len(ids) : ids[i] = id /\ \A j \in 1..(i - 1) : ids[j] # id

\* a category whose response was parsed into a result
Parsed(c) == fut[c].st = "done" /\ LoadData(fut[c].raw) # <<>>

\* C22: the chosen_ids of a result are the stated ids that belong to the
\* category's bucket, each once, in the order of their first occurrence.
C22_ChosenFilteredDedupedInOrder ==
    \A c \in CategorySet :
        Parsed(c) =>
            LET chosen == fut[c].result.chosen_ids
                stated == StatedIds(c)
                allowed == AllowedIds(Bucket(all_labels, c))
            IN  /\ ChosenSet(fut[c].result) = {stated[i] : i \in 1..Len(stated)} \cap allowed
                /\ \A i, j \in 1..Len(chosen) : i # j => chosen[i] # chosen[j]
                /\ \A i, j \in 1..Len(chosen) :
                      i < j => FirstAt(stated, chosen[i]) < FirstAt(stated, chosen[j])

\* a parsed response that stated an id outside the bucket and an id of the
\* bucket twice, of which two ids were kept in an order other than the
\* bucket's
C22_Witness ==
    \E c \in CategorySet :
        /\ Parsed(c)
        /\ LET chosen == fut[c].result.chosen_ids
               stated == StatedIds(c)
               tags == Bucket(all_labels, c)
           IN  /\ Len(chosen) >= 2
               /\ \E i \in 1..Len(stated) : stated[i] \notin AllowedIds(tags)
               /\ \E i, j \in 1..Len(stated) :
                     i < j /\ stated[i] = stated[j] /\ stated[i] \in AllowedIds(tags)
               /\ chosen[1] = tags[2].tag_id

\* the categories whose bucket holds the label at position i of all_labels
BucketsHolding(i) ==
    {c \in CategorySet :
        \E k \in 1..Len(group_labels_by_category(all_labels)[c]) :
            group_labels_by_category(all_labels)[c][k].tag_id = all_labels[i].tag_id}

\* C23: the grouping is a partition of all_labels: every label handed to the
\* call is in the bucket of exactly one category, whatever its category is.
C23_EveryLabelInOneBucket ==
    run_pc # "idle" =>
        \A i \in 1..Len(all_labels) : Cardinality(BucketsHolding(i)) = 1

\* C24: the reasoning caller is invoked once for each category whose bucket
\* is non-empty and never for a category whose bucket is empty; no call is
\* repeated after it raised or returned text that cannot be parsed.
C24_OneCallPerNonEmptyBucket ==
    \A c \in CategorySet :
        /\ llm_calls[c] <= 1
        /\ Bucket(all_labels, c) = <<>> => llm_calls[c] = 0
        /\ (run_pc = "returned" /\ Bucket(all_labels, c) # <<>>) => llm_calls[c] = 1

\* a returned run in which one call raised, one returned text from which
\* nothing could be parsed, and one category had no labels
C24_Witness ==
    /\ run_pc = "returned"
    /\ \E c, d, e \in CategorySet :
          /\ fut[c].st = "raised" /\ fut[c].raw = <<>> /\ llm_calls[c] = 1
          /\ fut[d].raw # <<>> /\ LoadData(fut[d].raw) = <<>> /\ llm_calls[d] = 1
          /\ Bucket(all_labels, e) = <<>> /\ llm_calls[e] = 0

\* C25: when the call returns, every category task has terminated and the
\* returned map has exactly the five categories as keys, each mapped to a
\* result of that category.
C25_AllJoinedFiveEntries ==
    run_pc = "returned" =>
        /\ \A c \in CategorySet : fut[c].st \in {"done", "raised"}
        /\ DOMAIN results = CategorySet
        /\ Cardinality(DOMAIN results) = Len(CATEGORIES)
        /\ \A c \in CategorySet : results[c].category = c

\* a returned run in which a worker raised, another chose labels and the
\* workers finished their calls in an order other than the submission order
C25_Witness ==
    /\ run_pc = "returned"
    /\ \E c, d \in CategorySet :
          /\ fut[c].st = "raised"
          /\ fut[d].st = "done" /\ results[d].chosen_ids # <<>>
    /\ Len(category_call_details) >= 2
    /\ category_call_details[1].category # CATEGORIES[1]
    /\ Bucket(all_labels, CATEGORIES[1]) # <<>>

(***************************************************************************)
(* Properties of PrototypeKNN                                              *)
(***************************************************************************)
\* C7: after calibrate_thresholds returns, every label with a prototype has a
\* stored threshold, and it is at least min_confidence_threshold.
C7_ThresholdAtLeastFloor ==
    last_op = "calibrate" =>
    \A t \in DOMAIN tag_prototypes :
        /\ t \in DOMAIN tag_thresholds
        /\ tag_thresholds[t] >= min_confidence_threshold

\* the scores of the holdout lectures for label t, as the latest calibration saw them
HeldScores(t, positive) ==
    HoldoutScores(tag_prototypes, tag_stats, Holdout(lectures), t, positive)

\* a calibration in which one label's search found a cutoff below the floor
\* and another label's search found no cutoff at all
C7_Witness ==
    /\ last_op = "calibrate"
    /\ \E t \in DOMAIN tag_prototypes :
          /\ HeldScores(t, TRUE) # <<>>
          /\ HeldScores(t, TRUE)[1] < min_confidence_threshold
          /\ HeldScores(t, FALSE) = <<>>
          /\ tag_thresholds[t] = min_confidence_threshold
    /\ \E t \in DOMAIN tag_prototypes : tag_thresholds[t] > min_confidence_threshold

\* C10: score_lecture never returns a label that no build call saw on a
\* lecture with an embedding.
C10_UntrainedNeverScored ==
    \A t \in DOMAIN scores : t \in ever_carried

\* a non-empty score_lecture result while a known label with a text embedding
\* never had an embedded example
C10_Witness ==
    /\ DOMAIN scores # {}
    /\ \E t \in (tags_data \cap DOMAIN tag_embeddings) : t \notin ever_carried
    /\ \E i \in 1..Len(lectures) : "T3" \in SeqToSet(lectures[i].tags)

\* C13: on an index that has prototypes but no calibrated threshold,
\* score_lecture fails instead of returning: it admits no label on the
\* strength of a default threshold put in place of the missing one.
C13_NoSubstitutedThreshold ==
    (DOMAIN tag_prototypes # {} /\ DOMAIN tag_thresholds = {})
    => DOMAIN scores = {}

(***************************************************************************)
(* Properties of _find_precision_threshold                                 *)
(***************************************************************************)
Observed == SeqToSet(positives) \cup SeqToSet(negatives)

\* (positives >= c) / (positives >= c + negatives >= c) >= target_precision
PrecisionReached(c) ==
    LET tp == Cardinality({i \in 1..Len(positives) : positives[i] >= c})
        fp == Cardinality({i \in 1..Len(negatives) : negatives[i] >= c})
    IN  tp * 100 >= target_precision * (tp + fp)

C9_HighestQualifying ==
    (found_threshold # <<>> /\ \E c \in Observed : PrecisionReached(c))
    => /\ found_threshold[1] \in Observed
       /\ PrecisionReached(found_threshold[1])
       /\ \A c \in Observed : c > found_threshold[1] => ~PrecisionReached(c)

\* a search in which the highest observed score fails the target and two
\* lower ones reach it
C9_Witness ==
    /\ found_threshold # <<>>
    /\ ~PrecisionReached(SetMax(Observed))
    /\ Cardinality({c \in Observed : PrecisionReached(c)}) >= 2

(***************************************************************************)
(* Properties of _cosine_similarity                                        *)
(***************************************************************************)
\* C11: the value _cosine_similarity returns lies in [-1, 1] for every pair
\* of vectors, and is 0 when either vector is the zero vector.
C11_CosineInRange ==
    similarity # <<>> =>
        /\ -1000 <= similarity[1] /\ similarity[1] <= 1000
        /\ (arg_vec1 = <<0, 0>> \/ arg_vec2 = <<0, 0>>) => similarity[1] = 0

\* sum(d['input_tokens'] for d in category_call_details)
RECURSIVE SumInputTokens(_, _)
SumInputTokens(details, i) ==
    IF i > Len(details) THEN 0
    ELSE details[i].input_tokens + SumInputTokens(details, i + 1)

\* C12: no worker overwrites what another worker wrote: once the run has
\* returned, total_input_tokens is the sum of the per-category token counts,
\* under every interleaving of the workers.
C12_TotalsAreSums ==
    run_pc = "returned" =>
        total_input_tokens = SumInputTokens(category_call_details, 1)

(***************************************************************************)
(* Properties of the API server                                            *)
(***************************************************************************)
Answered == api_response.status # 0

ValidRequest == api_request.body.has_lecture /\ api_request.body.has_labels

\* C14: in every scoring mode, a suggest request handled before any load of
\* a trained prototype set has succeeded is answered with an error, and a
\* well-formed request handled after a successful load for which the scorers
\* admit no label is answered with success and an empty suggestion list.
C14_UnloadedIsErrorEmptyIsSuccess ==
    Answered =>
        /\ ~api_request.loaded => api_response.status \in {400, 500}
        /\ (api_request.loaded /\ ValidRequest /\ api_request.body.admitted = <<>>)
              => api_response = Response(200, <<>>)

\* a reasoning-mode request answered with an error while nothing was loaded
\* although the database held a trained version
C14_Witness ==
    /\ Answered /\ ValidRequest
    /\ ~api_request.loaded
    /\ stored_version
    /\ api_request.body.scoring_mode = "reasoning"
    /\ api_request.body.admitted # <<>>
    /\ api_response.status = 500

\* C26: after every build_prototypes call, the labels that have a prototype and stats are
\* exactly the known labels carried by an embedded document of the corpus of
\* that build, and no threshold is kept for any other label.
C26_RebuildReplacesWholesale ==
    [][BuildPrototypes =>
          /\ DOMAIN tag_prototypes' = BuiltTags(lectures)
          /\ DOMAIN tag_stats' = BuiltTags(lectures)
          /\ DOMAIN tag_thresholds' \subseteq BuiltTags(lectures)]_vars

(***************************************************************************)
(* Properties of PrototypeStorage                                          *)
(***************************************************************************)
\* C15: what load_prototypes returns has the labels, the threshold per label,
\* the example count and the is_low_data flag per label of the artifacts
\* that were handed to the save_prototypes call it reads back.
C15_RoundTrip ==
    load_result # <<>> =>
        LET got == load_result[1].blob
            saved == versions[load_result[1].version_id].saved
        IN  /\ DOMAIN got.tag_prototypes = DOMAIN saved.tag_prototypes
            /\ \A t \in DOMAIN saved.tag_prototypes :
                  /\ got.tag_thresholds[t] = saved.tag_thresholds[t]
                  /\ got.tag_stats[t].num_examples = saved.tag_stats[t].num_examples
                  /\ IsLowData(got.tag_stats[t]) = IsLowData(saved.tag_stats[t])

\* C16: at every moment at most one committed version is active, and a load
\* returns the version written by the save that completed last.
C16_OneActiveLatestLoaded ==
    /\ Cardinality(ActiveIds(versions)) <= 1
    /\ load_result # <<>> => load_result[1].version_id = load_result[1].latest_saved

(***************************************************************************)
(* Further properties of Combine                                           *)
(***************************************************************************)
\* C17: the list returned by Combine carries every label id at most once,
\* whatever the two input lists are.
C17_EachLabelOnce ==
    \A i, j \in 1..Len(combined) : i # j => combined[i].tag_id # combined[j].tag_id

\* Combine has returned two or more entries for an input in which one label
\* id occurs twice in the prototype list (once under both keys) and again
\* in the reasoning list
C17_Witness ==
    /\ combine_calls > 0
    /\ Len(combined) >= 2
    /\ \E i, j \in 1..Len(prototype_suggestions) :
          /\ i < j
          /\ prototype_suggestions[i].tag_id # None
          /\ prototype_suggestions[i].label_id # None
          /\ IndexKey(prototype_suggestions[i]) = IndexKey(prototype_suggestions[j])
          /\ \E k \in 1..Len(reasoning_suggestions) :
                IndexKey(reasoning_suggestions[k]) = IndexKey(prototype_suggestions[i])
          /\ \E m \in 1..Len(combined) :
                combined[m].tag_id = IndexKey(prototype_suggestions[i])

\* C19: an entry carries the agreement bonus only if its label is in the
\* reasoning list and in the prototype list handed to Combine; when the
\* backfill rule fires (reasoning list empty) the entry it synthesizes has
\* no bonus and its combined score is prototype_weight * prototype_score.
C19_BonusOnlyForLabelsInBothInputs ==
    combine_calls > 0 =>
        /\ \A i \in 1..Len(combined) :
              combined[i].agreement_bonus_applied =>
                  /\ combined[i].tag_id \in DOMAIN index_by_label(reasoning_suggestions)
                  /\ combined[i].tag_id \in DOMAIN index_by_label(prototype_suggestions)
        /\ BackfillTriggered(reasoning_suggestions, prototype_suggestions) =>
              \A i \in 1..Len(combined) :
                  /\ ~combined[i].agreement_bonus_applied
                  /\ combined[i].score = prototype_weight * combined[i].prototype_score

(***************************************************************************)
(* Properties of EnsembleScorer.score_lecture                              *)
(***************************************************************************)
\* the complete fused lists Combine can return for the scorers' answers
FusedLists ==
    LET protos == PrototypeSuggestionsFrom(prototype_scores, 1)
    IN  { combine_reasoning_and_prototype(scorer_reasoning, protos, order,
              ensemble_weights.rw, ensemble_weights.pw, ensemble_weights.bonus) :
            order \in LabelOrders(scorer_reasoning, protos) }

\* C18: score_lecture returns the first min(top_k_tags, n) entries of the
\* complete fused list (after backfill), which is sorted by combined score in
\* non-increasing order; no omitted entry scores strictly higher than a
\* returned one.
C18_TopKAfterFusion ==
    ensemble_done =>
        \E fused \in FusedLists :
            /\ \A i \in 1..(Len(fused) - 1) : fused[i].score >= fused[i + 1].score
            /\ Len(final_suggestions) = Min(top_k_tags, Len(fused))
            /\ \A i \in 1..Len(final_suggestions) : final_suggestions[i] = fused[i]
            /\ \A i \in (Len(final_suggestions) + 1)..Len(fused) :
                  \A j \in 1..Len(final_suggestions) :
                      fused[i].score <= final_suggestions[j].score

\* a call whose fused list is longer than top_k_tags, with an omitted entry
\* scoring strictly lower than every returned one
C18_Witness ==
    /\ ensemble_done
    /\ Len(final_suggestions) = top_k_tags
    /\ \E fused \in FusedLists :
          /\ Len(fused) > top_k_tags
          /\ fused[Len(fused)].score < final_suggestions[top_k_tags].score

\* C27: for every lecture embedding and label, the index restored from the
\* stored version computes the score the trained index computed from the
\* artifacts that were saved, low-data labels included.
C27_RestoredScoresAsTrained ==
    restored_scores # <<>> =>
        LET saved == versions[load_result[1].version_id].saved
            e == restored_scores[1].lecture_embedding
        IN  \A t \in DOMAIN saved.tag_prototypes :
                restored_scores[1].scores[t] =
                    compute_score(saved.tag_prototypes, saved.tag_stats, e, t)

(***************************************************************************)
(* Properties of a reload next to a scoring request                        *)
(***************************************************************************)
\* C28: a scoring request that gets as far as scoring has read prototypes,
\* stats, thresholds and the tag-embedding cache of one and the same stored
\* version, none of them unassigned.
C28_ScoresOneCompleteVersion ==
    scorer.pc = "done" =>
        /\ scorer.tag_prototypes # 0
        /\ scorer.tag_stats = scorer.tag_prototypes
        /\ scorer.tag_thresholds = scorer.tag_prototypes
        /\ scorer.cache = scorer.tag_prototypes

C30_UnionWrittenNothingDropped ==
    /\ \A i \in DOMAIN table_updates :
          /\ table_updates[i].written =
                table_updates[i].read \cup SeqToSet(approved_tag_ids)
          /\ table_updates[i].read \subseteq table_updates[i].written
          /\ ~ (SeqToSet(approved_tag_ids) \subseteq table_updates[i].read)
          /\ ~ (SeqToSet(approved_tag_ids) \subseteq tags_before)
    /\ (sync_result # <<>> /\ sync_result[1].success) =>
          /\ SeqToSet(sync_result[1].tags_added) =
                SeqToSet(approved_tag_ids) \ sync_result[1].tags_before
          /\ sync_result[1].tags_before = tags_before

\* a successful sync that wrote a record holding one approved tag and one
\* other tag already, and added the approved tag that was missing
C30_Witness ==
    /\ sync_result # <<>> /\ sync_result[1].success
    /\ Len(table_updates) = 1
    /\ table_updates[1].read \ SeqToSet(approved_tag_ids) # {}
    /\ table_updates[1].read \cap SeqToSet(approved_tag_ids) # {}
    /\ sync_result[1].tags_added # <<>>
    /\ airtable_tags = table_updates[1].written

====
